---- MODULE Spec2Model ----
(***************************************************************************)
(* Model of the mazegame simulation core: the float rectangle FlRect, the  *)
(* blocks, Room, and Maze with its event driven main loop mazeloop.        *)
(*                                                                         *)
(* Numbers.  The program computes with floats; the model computes with     *)
(* integers in a fixed-point unit: one map unit is U = FPS*FPS model       *)
(* units, and a velocity is stored as the displacement it causes in one    *)
(* frame (v * TPF, in model units).  With FPS = 30 every displacement the  *)
(* program computes from its constants (speed*TPF, a*TPF*TPF) is then an   *)
(* integer.  Products of two coordinates are replaced by the equivalent    *)
(* comparison of signs.  Bot paths of the maps of the model are parallel   *)
(* to an axis, where cos/sin of the heading are 0 or +-1.                  *)
(***************************************************************************)
EXTENDS Integers, Sequences, FiniteSets, TLC

\* ---- src/src/__init__.py: constants ----
FPS == 30

U == FPS * FPS

PAGE == 1000

\* Python's None, for a value that is otherwise a tuple: the empty tuple
None == <<>>

\* the result of a call that raised RuntimeError instead of returning a tuple
Raised == <<>>

\* a checksign that tells zero from non-zero only
checksign_Unsigned(x) == IF x = 0 THEN 0 ELSE 1

\* checksign(x)
checksign(x) == IF x = 0 THEN 0 ELSE IF x > 0 THEN 1 ELSE -1

Abs(x) == IF x < 0 THEN -x ELSE x

\* ---- FlRect: a record [x, y, w, h] ----
FlRect(x, y, w, h) == [x |-> x, y |-> y, w |-> w, h |-> h]

Left(r) == r.x

Right(r) == r.x + r.w

Top(r) == r.y

Bottom(r) == r.y + r.h

\* centerx, centery multiplied by 2 (w/2 need not be an integer)
CenterX2(r) == 2 * r.x + r.w

CenterY2(r) == 2 * r.y + r.h

\* the sign of a product a*b > 0, without computing the product
ProdPos(a, b) == (a > 0 /\ b > 0) \/ (a < 0 /\ b < 0)

\* FlRect.colliderect
colliderect(a, b) ==
    /\ ProdPos(Right(a) - Left(b), Right(b) - Left(a))
    /\ ProdPos(Bottom(a) - Top(b), Bottom(b) - Top(a))

\* FlRect.contains
contains(a, b) ==
    /\ Right(a) >= Right(b) /\ Left(a) <= Left(b)
    /\ Bottom(a) >= Bottom(b) /\ Top(a) <= Top(b)

\* FlRect.move
move(r, dx, dy) == FlRect(r.x + dx, r.y + dy, r.w, r.h)

\* FlRect.distance, times 2 (from the doubled centres)
distance2(a, b) == <<CenterX2(a) - CenterX2(b), CenterY2(a) - CenterY2(b)>>

\* ---- src/src/mzgblocks.py: class constants ----
DoorSize == 50

KeySize == 50

BotSize == 30

CheckpointSize == 50

CharSize == 20

BotSpeed == 150

CharSpeed == 125

JumpSpeed == 250

Gravity == <<0, 200>>

ForceFactor == 100

\* WindArea._winddict: compass direction -> direction vector
winddict(d) ==
    CASE d = 0 -> <<0, -1>>
      [] d = 1 -> <<1, -1>>
      [] d = 2 -> <<1, 0>>
      [] d = 3 -> <<1, 1>>
      [] d = 4 -> <<0, 1>>
      [] d = 5 -> <<-1, 1>>
      [] d = 6 -> <<-1, 0>>
      [] d = 7 -> <<-1, -1>>

\* Character direction flags
UP == "UP"

DOWN == "DOWN"

LEFT == "LEFT"

RIGHT == "RIGHT"

JUMP == "JUMP"

SPACE == "SPACE"

\* v * TPF in model units, for a velocity v in map units per second
TPFU == U \div FPS

\* ---- map records: the attributes of one xml tag of a map file ----
Tag(t, id, x, y) ==
    [tag |-> t, blockid |-> id, x |-> x, y |-> y, width |-> 0, height |-> 0,
     destination |-> -1, locked |-> FALSE, keyid |-> <<>>, markers |-> <<>>,
     direction |-> 0, strength |-> 0, visible |-> TRUE]

WallTag(id, x, y, w, h) == [Tag("Wall", id, x, y) EXCEPT !.width = w, !.height = h]

LadderTag(id, x, y, w, h) == [Tag("Ladder", id, x, y) EXCEPT !.width = w, !.height = h]

DeadlyTag(id, x, y, w, h) == [Tag("DeadlyBlock", id, x, y) EXCEPT !.width = w, !.height = h]

WindTag(id, x, y, w, h, d, s) ==
    [Tag("WindArea", id, x, y) EXCEPT !.width = w, !.height = h, !.direction = d, !.strength = s]

DoorTag(id, x, y, dest, lck) == [Tag("Door", id, x, y) EXCEPT !.destination = dest, !.locked = lck]

KeyTag(id, x, y, ids) == [Tag("Key", id, x, y) EXCEPT !.keyid = ids]

BotTag(id, x, y, mrk) == [Tag("EnemyBot", id, x, y) EXCEPT !.markers = mrk]

CheckpointTag(id, x, y) == Tag("Checkpoint", id, x, y)

\* a rectangle given in map units, stored in model units
AuRect(x, y, w, h) == FlRect(U * x, U * y, U * w, U * h)

\* ---- EnemyBot ----
\* a velocity with its components exchanged
SpeedVec_Turned(vd) ==
    CASE vd[2] = 0 /\ vd[1] >= 0 -> <<0, BotSpeed * TPFU>>
      [] vd[2] = 0 /\ vd[1] < 0 -> <<0, -(BotSpeed * TPFU)>>
      [] vd[1] = 0 /\ vd[2] > 0 -> <<BotSpeed * TPFU, 0>>
      [] vd[1] = 0 /\ vd[2] < 0 -> <<-(BotSpeed * TPFU), 0>>

\* speed * (cos(angle), sin(angle)) * TPF with angle = arctan2(dy, dx), for a
\* direction parallel to an axis (arctan2(0, 0) = 0)
SpeedVec(vd) ==
    CASE vd[2] = 0 /\ vd[1] >= 0 -> <<BotSpeed * TPFU, 0>>
      [] vd[2] = 0 /\ vd[1] < 0 -> <<-(BotSpeed * TPFU), 0>>
      [] vd[1] = 0 /\ vd[2] > 0 -> <<0, BotSpeed * TPFU>>
      [] vd[1] = 0 /\ vd[2] < 0 -> <<0, -(BotSpeed * TPFU)>>

\* np.linalg.norm of a vector parallel to an axis, times 2
Norm2(vd) == Abs(vd[1]) + Abs(vd[2])

\* EnemyBot.setspeed; the first call (no _ipm yet) is setspeedFirst
setspeedFirst(bot) ==
    LET n == Len(bot.pathmarkers)
        curmarkerrect == bot.pathmarkers[n]
        ipm0 == 0
        ipm == IF ipm0 = n THEN 0 ELSE ipm0
        nextrect == bot.pathmarkers[ipm + 1]
    IN [bot EXCEPT !.ipm = ipm, !.nextrect = nextrect,
                   !.curspeed = SpeedVec(distance2(nextrect, curmarkerrect))]

\* a setspeed that always turns to the first waypoint
setspeed_Restart(bot) ==
    LET curmarkerrect == bot.pathmarkers[bot.ipm + 1]
        nextrect == bot.pathmarkers[1]
    IN [bot EXCEPT !.ipm = 0, !.nextrect = nextrect,
                   !.curspeed = SpeedVec(distance2(nextrect, curmarkerrect))]

setspeed(bot) ==
    LET n == Len(bot.pathmarkers)
        curmarkerrect == bot.pathmarkers[bot.ipm + 1]
        ipm1 == bot.ipm + 1
        ipm == IF ipm1 = n THEN 0 ELSE ipm1
        nextrect == bot.pathmarkers[ipm + 1]
    IN [bot EXCEPT !.ipm = ipm, !.nextrect = nextrect,
                   !.curspeed = SpeedVec(distance2(nextrect, curmarkerrect))]

\* EnemyBot.__init__: the markers of the tag, then the spawn position
NewBot(oid, tg) ==
    LET coordpoints == tg.markers \o << <<tg.x, tg.y>> >>
        mk == [i \in 1..Len(coordpoints) |->
                  AuRect(coordpoints[i][1], coordpoints[i][2], BotSize, BotSize)]
        raw == [oid |-> oid, id |-> tg.blockid,
                aurect |-> AuRect(tg.x, tg.y, BotSize, BotSize),
                pathmarkers |-> mk, ipm |-> 0,
                nextrect |-> mk[1], curspeed |-> <<0, 0>>]
    IN setspeedFirst(raw)

\* EnemyBot.movebot that places the bot on the waypoint it arrives at without
\* turning to the next one
movebot_NoTurn(bot) ==
    LET cvdist == distance2(bot.nextrect, bot.aurect)
        moddist == Norm2(cvdist)
    IN IF moddist >= 2 * (BotSpeed * TPFU)
       THEN [bot EXCEPT !.aurect = move(bot.aurect, bot.curspeed[1], bot.curspeed[2])]
       ELSE [bot EXCEPT !.aurect.x = bot.pathmarkers[bot.ipm + 1].x,
                        !.aurect.y = bot.pathmarkers[bot.ipm + 1].y]

\* EnemyBot.movebot
movebot(bot) ==
    LET cvdist == distance2(bot.nextrect, bot.aurect)
        moddist == Norm2(cvdist)
    IN IF moddist >= 2 * (BotSpeed * TPFU)
       THEN [bot EXCEPT !.aurect = move(bot.aurect, bot.curspeed[1], bot.curspeed[2])]
       ELSE setspeed([bot EXCEPT !.aurect.x = bot.pathmarkers[bot.ipm + 1].x,
                                 !.aurect.y = bot.pathmarkers[bot.ipm + 1].y])

\* ---- Room ----
\* Room.__init__
NewRoom(rp) ==
    [roompos |-> rp, allblocks |-> <<>>, walls |-> <<>>, ladders |-> <<>>,
     deathblocks |-> <<>>, bots |-> <<>>, doors |-> <<>>, keys |-> <<>>,
     windareas |-> <<>>, checkpoints |-> <<>>, screens |-> <<1, 1>>]

KnownTags == {"Wall", "Ladder", "DeadlyBlock", "WindArea", "Door", "Key", "EnemyBot", "Checkpoint"}

\* the size addelem takes for the block of a tag (bsize)
TagSize(tg) ==
    CASE tg.tag \in {"Wall", "Ladder", "DeadlyBlock", "WindArea"} -> <<tg.width, tg.height>>
      [] tg.tag = "Door" -> <<DoorSize, DoorSize>>
      [] tg.tag = "Key" -> <<KeySize, KeySize>>
      [] tg.tag = "EnemyBot" -> <<BotSize, BotSize>>
      [] tg.tag = "Checkpoint" -> <<CheckpointSize, CheckpointSize>>

\* the page extent after a block with corner bpos and size bsize was added
AdjustScreens(screens, bpos, bsize) ==
    LET maxx == ((bpos[1] + bsize[1]) \div PAGE) + 1
        maxy == ((bpos[2] + bsize[2]) \div PAGE) + 1
    IN <<IF maxx > screens[1] THEN maxx ELSE screens[1],
         IF maxy > screens[2] THEN maxy ELSE screens[2]>>

\* the tags Room.addelem has a branch for
BlockKinds ==
    {"Wall", "Ladder", "DeadlyBlock", "WindArea", "Door", "Key", "EnemyBot", "Checkpoint"}

\* a Room.addelem that counts the block of an unknown tag before it raises
unknownblock_Counted(room, tg) ==
    [room EXCEPT !.allblocks = Append(@, Len(@) + 1),
                 !.screens = AdjustScreens(@, <<tg.x, tg.y>>, <<tg.width, tg.height>>)]

\* the room as the else branch of Room.addelem leaves it when it raises
\* RuntimeError for an unknown tag
unknownblock(room, tg) == room

\* Room.addelem: the block is appended to its group and to allblocks (by its
\* identity oid), and the page extent is adjusted; an unknown tag raises
addelem(room, tg) ==
    LET oid == Len(room.allblocks) + 1
        bsize == TagSize(tg)
        rect == AuRect(tg.x, tg.y, bsize[1], bsize[2])
        base == [oid |-> oid, id |-> tg.blockid, aurect |-> rect]
        r1 == CASE tg.tag = "Wall" -> [room EXCEPT !.walls = Append(@, base)]
                [] tg.tag = "Ladder" -> [room EXCEPT !.ladders = Append(@, base)]
                [] tg.tag = "DeadlyBlock" -> [room EXCEPT !.deathblocks = Append(@, base)]
                [] tg.tag = "WindArea" ->
                     [room EXCEPT !.windareas = Append(@,
                        [oid |-> oid, id |-> tg.blockid, aurect |-> rect,
                         wind |-> <<winddict(tg.direction)[1] * tg.strength * ForceFactor,
                                    winddict(tg.direction)[2] * tg.strength * ForceFactor>>,
                         visible |-> tg.visible])]
                [] tg.tag = "Door" ->
                     [room EXCEPT !.doors = Append(@,
                        [oid |-> oid, id |-> tg.blockid, aurect |-> rect,
                         destination |-> tg.destination, locked |-> tg.locked])]
                [] tg.tag = "Key" ->
                     [room EXCEPT !.keys = Append(@,
                        [oid |-> oid, id |-> tg.blockid, aurect |-> rect,
                         whoopen |-> tg.keyid, taken |-> FALSE])]
                [] tg.tag = "EnemyBot" -> [room EXCEPT !.bots = Append(@, NewBot(oid, tg))]
                [] tg.tag = "Checkpoint" -> [room EXCEPT !.checkpoints = Append(@, base)]
    IN IF tg.tag \notin BlockKinds THEN unknownblock(room, tg)
       ELSE [r1 EXCEPT !.allblocks = Append(@, oid),
                       !.screens = AdjustScreens(@, <<tg.x, tg.y>>, bsize)]

RECURSIVE BuildRoom(_, _)
\* Maze.maploader: a room and the blocks of its tags, in file order
BuildRoom(room, tags) ==
    IF tags = <<>> THEN room ELSE BuildRoom(addelem(room, Head(tags)), Tail(tags))

\* Room.offscreen: the offset <<ix, iy>>, or Raised where the code raises
\* RuntimeError
offscreen(room, rect) ==
    LET ix == rect.x \div (PAGE * U)
        iy == rect.y \div (PAGE * U)
    IN IF ix < room.screens[1] /\ iy < room.screens[2] THEN <<ix, iy>> ELSE Raised

\* Room.isoffvalid: TRUE where the code returns, FALSE where it raises
isoffvalid(room, off) ==
    /\ 0 <= off[1] /\ off[1] < room.screens[1]
    /\ 0 <= off[2] /\ off[2] < room.screens[2]

\* a kill that takes the sprite out of the group allblocks only
Kill_AllOnly(room, oid) ==
    LET keepo(o) == o # oid
    IN [room EXCEPT !.allblocks = SelectSeq(@, keepo)]

\* Sprite.kill: the sprite leaves every group that holds it
Kill(room, oid) ==
    LET keep(b) == b.oid # oid
        keepo(o) == o # oid
    IN [room EXCEPT !.allblocks = SelectSeq(@, keepo),
                    !.walls = SelectSeq(@, keep), !.ladders = SelectSeq(@, keep),
                    !.deathblocks = SelectSeq(@, keep), !.bots = SelectSeq(@, keep),
                    !.doors = SelectSeq(@, keep), !.keys = SelectSeq(@, keep),
                    !.windareas = SelectSeq(@, keep), !.checkpoints = SelectSeq(@, keep)]

RECURSIVE KillAll(_, _)
KillAll(room, oids) ==
    IF oids = <<>> THEN room ELSE KillAll(Kill(room, Head(oids)), Tail(oids))

\* Room.empty
empty(room) == KillAll(room, room.allblocks)

\* Room.alldoorsid, Room.alldestinations
alldoorsid(room) == [i \in 1..Len(room.doors) |-> room.doors[i].id]

alldestinations(room) == [i \in 1..Len(room.doors) |-> room.doors[i].destination]

InSeq(v, s) == \E i \in 1..Len(s) : s[i] = v

\* the index of the first TRUE of a sequence of booleans, or 0: where a loop
\* over a group stops at its "break"
FirstTrue(flags) ==
    IF \E i \in 1..Len(flags) : flags[i]
    THEN CHOOSE i \in 1..Len(flags) : flags[i] /\ \A j \in 1..(i - 1) : ~flags[j]
    ELSE 0

\* ---- Character ----
\* Character.__init__ and Maze.initcursor (setforcefield(gravity))
NewCharacter(pos, iniroom) ==
    [aurect |-> AuRect(pos[1], pos[2], CharSize, CharSize), cridx |-> iniroom,
     touchplane |-> FALSE, dvx |-> 0, dvy |-> 0,
     ax |-> Gravity[1], ay |-> Gravity[2], off |-> <<0, 0>>]

\* Character.setforcefield with a 2-length container
setforcefield(cur, f) == [cur EXCEPT !.ax = f[1], !.ay = f[2]]

\* Character.update: the offset is stored
update(cur, off) == [cur EXCEPT !.off = off]

\* Character.insidearea: None, or the offset to add
insidearea(cur) ==
    LET coff == <<cur.off[1] * PAGE * U, cur.off[2] * PAGE * U>>
        cnt == FlRect(coff[1], coff[2], coff[1] + PAGE * U, coff[2] + PAGE * U)
    IN IF contains(cnt, cur.aurect) THEN None
       ELSE IF CenterY2(cur.aurect) < 2 * Top(cnt) THEN <<0, -1>>
       ELSE IF CenterX2(cur.aurect) < 2 * Left(cnt) THEN <<-1, 0>>
       ELSE IF CenterY2(cur.aurect) > 2 * Bottom(cnt) THEN <<0, 1>>
       ELSE IF CenterX2(cur.aurect) > 2 * Right(cnt) THEN <<1, 0>>
       ELSE None

\* Character.getdirmove: the directions of the pressed keys
\* Character.getdirmove that takes the jump whatever touchplane is
getdirmove_AnyJump(cur, pressed) ==
    (pressed \cap {UP, DOWN, RIGHT, LEFT})
        \cup (IF SPACE \in pressed THEN {JUMP} ELSE {})

getdirmove(cur, pressed) ==
    (pressed \cap {UP, DOWN, RIGHT, LEFT})
        \cup (IF SPACE \in pressed /\ ~cur.touchplane THEN {JUMP} ELSE {})

\* x / y with the fraction dropped (the fixed-point rounding of the model)
Trunc(x, y) == IF x >= 0 THEN x \div y ELSE -((-x) \div y)

\* an applyforce without the term in dvx
applyforce_NoDrag(cur) ==
    [cur EXCEPT !.dvx = cur.dvx + cur.ax, !.dvy = cur.dvy + cur.ay]

\* Character.applyforce: dvx += (ax - 0.5*dvx)*TPF, dvy += ay*TPF, with the
\* velocities stored as displacements per frame
applyforce(cur) ==
    [cur EXCEPT !.dvx = cur.dvx + cur.ax - Trunc(cur.dvx, 2 * FPS),
                !.dvy = cur.dvy + cur.ay]

\* Block.collidinggroup
collidinggroup(rect, group) ==
    LET hit(b) == colliderect(rect, b.aurect) IN SelectSeq(group, hit)

RECURSIVE ClampX(_, _, _)
\* the loop over the walls hit after the horizontal move
ClampX(rect, collspr, dsp0) ==
    IF collspr = <<>> THEN rect
    ELSE LET w == Head(collspr).aurect
             r1 == IF Left(rect) < Right(w) /\ dsp0 < 0 THEN [rect EXCEPT !.x = Right(w)]
                   ELSE IF Right(rect) > Left(w) /\ dsp0 > 0
                        THEN [rect EXCEPT !.x = Left(w) - rect.w]
                        ELSE rect
         IN ClampX(r1, Tail(collspr), dsp0)

RECURSIVE ClampY(_, _, _)
\* the loop over the walls hit after the vertical move
ClampY(rect, collspr, dsp1) ==
    IF collspr = <<>> THEN rect
    ELSE LET w == Head(collspr).aurect
             r1 == IF Top(rect) < Bottom(w) /\ dsp1 < 0 THEN [rect EXCEPT !.y = Bottom(w)]
                   ELSE IF Bottom(rect) > Top(w) /\ dsp1 > 0
                        THEN [rect EXCEPT !.y = Top(w) - rect.h]
                        ELSE rect
         IN ClampY(r1, Tail(collspr), dsp1)

\* Character.movecharacter; pressed is what pygame.key.get_pressed reports
movecharacter(cur, groupwalls, groupladders, pressed) ==
    LET c1 == IF Len(collidinggroup(cur.aurect, groupladders)) = 0
              THEN applyforce(cur)
              ELSE [cur EXCEPT !.dvx = 0, !.dvy = 0]
        dir == getdirmove(cur, pressed)
        dsp0 == (IF LEFT \in dir THEN -(CharSpeed * TPFU) ELSE 0)
                + (IF RIGHT \in dir THEN CharSpeed * TPFU ELSE 0) + c1.dvx
        rx == move(c1.aurect, dsp0, 0)
        collx == collidinggroup(rx, groupwalls)
        rx2 == ClampX(rx, collx, dsp0)
        c2 == [c1 EXCEPT !.aurect = rx2,
                         !.dvx = IF Len(collx) > 0 /\ checksign(c1.ax) = checksign(dsp0)
                                 THEN 0 ELSE @]
        onladder == Len(collidinggroup(c2.aurect, groupladders)) > 0
        c3 == IF onladder /\ c2.touchplane THEN [c2 EXCEPT !.touchplane = FALSE] ELSE c2
        dsp1 == (IF onladder /\ UP \in dir THEN -(CharSpeed * TPFU) ELSE 0)
                + (IF onladder /\ DOWN \in dir THEN CharSpeed * TPFU ELSE 0)
                + (IF JUMP \in dir THEN -(JumpSpeed * TPFU) ELSE 0) + c3.dvy
        ry == move(c3.aurect, 0, dsp1)
        colly == collidinggroup(ry, groupwalls)
        ry2 == ClampY(ry, colly, dsp1)
    IN IF Len(colly) > 0
       THEN [c3 EXCEPT !.aurect = ry2,
                       !.touchplane = ~(checksign(c3.ay) = checksign(dsp1)),
                       !.dvx = 0, !.dvy = 0]
       ELSE [c3 EXCEPT !.aurect = ry2]

\* ---- events of the pygame queue ----
Event(t) ==
    [type |-> t, door_id |-> -1, destination |-> -1, key_id |-> -1,
     openeddoor |-> <<>>, wind |-> <<0, 0>>]

\* DeadlyBlock.death_event, EnemyBot.death_event, Maze.scrollscreen
DeathEvent == Event("DEATHEVENT")

\* Door.entering_event
EnterDoorEvent(door) ==
    [Event("ENTERDOOREVENT") EXCEPT !.door_id = door.id, !.destination = door.destination]

\* Key.takingkey_event
TakeKeyEvent(key) == [Event("TAKEKEYEVENT") EXCEPT !.key_id = key.id, !.openeddoor = key.whoopen]

\* Checkpoint.checkp_event
CheckpEvent(chp) == [Event("CHECKPEVENT") EXCEPT !.key_id = chp.id]

\* WindArea.entering_wind_event, WindArea.exiting_wind_event
EnteringEvent(wnd) == [Event("ENTERINGEVENT") EXCEPT !.wind = wnd.wind]

ExitingEvent == Event("EXITINGEVENT")

\* ---- Maze ----
VARIABLES
    mapid,          \* the map file that was loaded
    start,          \* its Character element: <<initialroom, x, y>>
    rooms,          \* Maze.rooms: rooms[i + 1] is the room with roompos i
    croom,          \* Maze.croom, by its roompos
    cursor,         \* Maze.cursor, the Character
    cpp,            \* Maze.cpp, the offset of the page shown (None before the loop)
    queue,          \* the events posted to the pygame queue and not yet got
    enterroom,      \* mazeloop's local enterroom
    dying,          \* mazeloop's local dying
    kup,            \* mazeloop's local kup
    cursorinside,   \* WindArea.cursorinside: None or <<the wind area>>
    chpfile,        \* the checkpoint file: None or its lines, each a sequence of characters
    outcome,        \* how mazeloop ended, "running" while it runs
    ticks,          \* the number of loop iterations done
    refst,          \* the same session with the same inputs in a process of its own
    arrivals,       \* the waypoints a patrolling bot has arrived at
    loadfile        \* the loadfile argument of Maze: "None" (a new game) or "-1" (from the checkpoint)

vars == <<mapid, start, rooms, croom, cursor, cpp, queue, enterroom, dying, kup,
          cursorinside, chpfile, outcome, ticks, refst, arrivals, loadfile>>

Room(rms, rp) == rms[rp + 1]

RoomIds(rms) == 0..(Len(rms) - 1)

\* the loop "for nrldd in self.croom.doors": the index of the first door whose
\* destination is doorid, or 0
FirstLeading(doors, doorid) ==
    FirstTrue([i \in 1..Len(doors) |-> doors[i].destination = doorid])

\* Maze.crossdoor for destination >= 0: the room and the character afterwards
crossdoor(rms, cr, cur, doorid, destination) ==
    LET found == {r \in RoomIds(rms) : InSeq(doorid, alldestinations(Room(rms, r)))}
        cr1 == IF found = {} THEN cr
               ELSE CHOOSE r \in found : \A q \in found : r <= q
        cur1 == IF found = {} THEN cur ELSE [cur EXCEPT !.cridx = cr1]
        k == FirstLeading(Room(rms, cr1).doors, doorid)
    IN [croom |-> cr1,
        cursor |-> IF k = 0 THEN cur1
                   ELSE [cur1 EXCEPT !.aurect.x = Room(rms, cr1).doors[k].aurect.x,
                                     !.aurect.y = Room(rms, cr1).doors[k].aurect.y]]

\* Room.getdoorref, as an index into the doors of the room (0: None)
getdoorref(room, idx) ==
    FirstTrue([i \in 1..Len(room.doors) |-> room.doors[i].id = idx])

\* Maze.keytaken: the rooms afterwards
\* keytaken opening only the first door of the list
keytaken_FirstOnly(rms, dooridlist) ==
    [i \in 1..Len(rms) |->
        [rms[i] EXCEPT !.doors =
            [k \in 1..Len(rms[i].doors) |->
                IF dooridlist # <<>> /\ getdoorref(rms[i], dooridlist[1]) = k
                THEN [rms[i].doors[k] EXCEPT !.locked = FALSE]
                ELSE rms[i].doors[k]]]]

\* keytaken opening every door of a room that holds a door of the list
keytaken_WholeRoom(rms, dooridlist) ==
    [i \in 1..Len(rms) |->
        [rms[i] EXCEPT !.doors =
            [k \in 1..Len(rms[i].doors) |->
                IF \E j \in 1..Len(dooridlist) : getdoorref(rms[i], dooridlist[j]) # 0
                THEN [rms[i].doors[k] EXCEPT !.locked = FALSE]
                ELSE rms[i].doors[k]]]]

keytaken(rms, dooridlist) ==
    [i \in 1..Len(rms) |->
        [rms[i] EXCEPT !.doors =
            [k \in 1..Len(rms[i].doors) |->
                IF \E j \in 1..Len(dooridlist) : getdoorref(rms[i], dooridlist[j]) = k
                THEN [rms[i].doors[k] EXCEPT !.locked = FALSE]
                ELSE rms[i].doors[k]]]]

\* ---- Maze.mazeloop: one iteration after the events were got ----
\* The steps work on a record st of the values the iteration reads and writes.
post(st, ev) == [st EXCEPT !.queue = Append(@, ev)]

\* Maze.scrollscreen
\* scrollscreen without the try/except around isoffvalid
scrollscreen_Uncaught(st) ==
    IF ~isoffvalid(Room(st.rooms, st.croom), st.cpp)
    THEN [st EXCEPT !.outcome = "crash"]
    ELSE [st EXCEPT !.cursor = update(@, st.cpp)]

scrollscreen(st) ==
    IF ~isoffvalid(Room(st.rooms, st.croom), st.cpp)
    THEN post(st, DeathEvent)
    ELSE [st EXCEPT !.cursor = update(@, st.cpp)]

\* "if enterroom:" -- offscreen may raise, which ends the loop with an error
StepEnter(st) ==
    IF ~st.enterroom THEN st
    ELSE LET off == offscreen(Room(st.rooms, st.croom), st.cursor.aurect)
         IN IF off = Raised THEN [st EXCEPT !.outcome = "crash"]
            ELSE scrollscreen([st EXCEPT !.cpp = off, !.cursor = update(@, off),
                                         !.enterroom = FALSE])

\* "checking if the character is entering a checkpoint"
StepCheckpoint(st, k) ==
    LET chps == Room(st.rooms, st.croom).checkpoints
        i == FirstTrue([j \in 1..Len(chps) |-> contains(chps[j].aurect, st.cursor.aurect)])
    IN IF k /\ i # 0 THEN post(st, CheckpEvent(Room(st.rooms, st.croom).checkpoints[i]))
       ELSE st

\* the test of the loop over the doors
\* the test of the loop over the doors without "and not ldd.locked"
DoorEntered_AnyLock(d, rect) == contains(d.aurect, rect)

\* the test of the loop over the doors
DoorEntered(d, rect) == contains(d.aurect, rect) /\ ~d.locked

\* "checking if the character is entering in a door": the index of the door
\* entered, or 0
EnteredDoor(st, k) ==
    LET doors == Room(st.rooms, st.croom).doors
    IN IF k THEN FirstTrue([j \in 1..Len(doors) |-> DoorEntered(doors[j], st.cursor.aurect)])
       ELSE 0

StepDoor(st, k) ==
    LET i == EnteredDoor(st, k)
    IN IF i # 0
       THEN [post(st, EnterDoorEvent(Room(st.rooms, st.croom).doors[i]))
                EXCEPT !.enterroom = TRUE]
       ELSE st

\* the test of the loop over the keys without "and not lkk.taken"
KeyTaken_Again(key, rect) == contains(key.aurect, rect)

\* the test of the loop over the keys
KeyTaken(key, rect) == contains(key.aurect, rect) /\ ~key.taken

\* "checking if the character is taking a key"
StepKey(st, k) ==
    LET keys == Room(st.rooms, st.croom).keys
        i == FirstTrue([j \in 1..Len(keys) |-> KeyTaken(keys[j], st.cursor.aurect)])
    IN IF k /\ i # 0
       THEN [post(st, TakeKeyEvent(Room(st.rooms, st.croom).keys[i]))
                EXCEPT !.rooms[st.croom + 1].keys[i].taken = TRUE]
       ELSE st

\* "adjusting force field if entering or leaving a windarea"
StepWind(st) ==
    IF st.cursorinside = None
    THEN LET winds == Room(st.rooms, st.croom).windareas
             i == FirstTrue([j \in 1..Len(winds) |->
                                contains(winds[j].aurect, st.cursor.aurect)])
         IN IF i # 0
            THEN [post(st, EnteringEvent(Room(st.rooms, st.croom).windareas[i]))
                     EXCEPT !.cursorinside = <<Room(st.rooms, st.croom).windareas[i]>>]
            ELSE st
    ELSE IF ~contains(st.cursorinside[1].aurect, st.cursor.aurect)
         THEN [post(st, ExitingEvent) EXCEPT !.cursorinside = None]
         ELSE st

\* "checking if character is dying touching a deadly block or a bot"
Touching(st) ==
    LET ltt == Room(st.rooms, st.croom).deathblocks \o Room(st.rooms, st.croom).bots
    IN FirstTrue([j \in 1..Len(ltt) |-> colliderect(ltt[j].aurect, st.cursor.aurect)]) # 0

StepDeath(st) ==
    IF Touching(st) THEN [post(st, DeathEvent) EXCEPT !.dying = TRUE] ELSE st

\* a movement that steps the bots of every room
StepMove_EveryRoom(st, pressed) ==
    LET room == Room(st.rooms, st.croom)
    IN [st EXCEPT !.cursor = movecharacter(@, room.walls, room.ladders, pressed),
                  !.rooms = [r \in 1..Len(st.rooms) |->
                                [st.rooms[r] EXCEPT !.bots =
                                    [i \in 1..Len(st.rooms[r].bots) |->
                                        movebot(st.rooms[r].bots[i])]]]]

\* "handling movement": the character, then every bot of the current room
StepMove(st, pressed) ==
    LET room == Room(st.rooms, st.croom)
    IN [st EXCEPT !.cursor = movecharacter(@, room.walls, room.ladders, pressed),
                  !.rooms[st.croom + 1].bots =
                      [i \in 1..Len(room.bots) |-> movebot(room.bots[i])]]

\* insidearea, then "if addcoord is not None:"
StepScroll(st) ==
    LET addcoord == insidearea(st.cursor)
    IN IF addcoord # None
       THEN scrollscreen([st EXCEPT !.cpp = <<st.cpp[1] + addcoord[1],
                                              st.cpp[2] + addcoord[2]>>])
       ELSE st

\* the iteration: each "continue" of the code ends it early
\* a loop body that tests the doors before the checkpoints
LoopBody_DoorFirst(st, k, pressed) ==
    LET s1 == StepEnter(st)
        s2 == StepDoor(s1, k)
        s3 == StepCheckpoint(s2, k)
        s4 == StepWind(StepKey(s3, k))
        s5 == StepDeath(s4)
    IN IF s1.outcome = "crash" THEN s1
       ELSE IF s3.enterroom THEN s3
       ELSE IF s5.dying THEN s5
       ELSE StepScroll(StepMove(s5, pressed))

\* a loop body without the "continue" under "if dying"
LoopBody_MoveWhileDying(st, k, pressed) ==
    LET s1 == StepEnter(st)
        s2 == StepCheckpoint(s1, k)
        s3 == StepDoor(s2, k)
        s4 == StepWind(StepKey(s3, k))
        s5 == StepDeath(s4)
    IN IF s1.outcome = "crash" THEN s1
       ELSE IF s3.enterroom THEN s3
       ELSE StepScroll(StepMove(s5, pressed))

\* a loop body that tests the deadly contact before the keys
LoopBody_DeathFirst(st, k, pressed) ==
    LET s1 == StepEnter(st)
        s2 == StepCheckpoint(s1, k)
        s3 == StepDoor(s2, k)
        s4 == StepDeath(s3)
        s5 == StepWind(StepKey(s4, k))
    IN IF s1.outcome = "crash" THEN s1
       ELSE IF s3.enterroom THEN s3
       ELSE IF s5.dying THEN s5
       ELSE StepScroll(StepMove(s5, pressed))

LoopBody(st, k, pressed) ==
    LET s1 == StepEnter(st)
        s2 == StepCheckpoint(s1, k)
        s3 == StepDoor(s2, k)
        s4 == StepWind(StepKey(s3, k))
        s5 == StepDeath(s4)
    IN IF s1.outcome = "crash" THEN s1
       ELSE IF s3.enterroom THEN s3
       ELSE IF s5.dying THEN s5
       ELSE StepScroll(StepMove(s5, pressed))

\* ---- the maps of the model ----
MapIds == {"pairs", "oneway", "hazard", "stray", "windy", "saves", "ceiling", "wide",
           "dangling", "barrier", "draft", "verge"}

\* "pairs": doors in reciprocal pairs, one pair open, one opened by a key for
\* both doors, one opened by a key per door; passes test_doors and test_keys
PairsRoom0 ==
    << WallTag(0, 0, 300, 1500, 50),
       DoorTag(0, 100, 100, 1, FALSE),
       DoorTag(2, 300, 100, 3, TRUE),
       KeyTag(0, 500, 100, <<2, 3>>),
       DoorTag(4, 700, 100, 5, TRUE),
       KeyTag(1, 900, 100, <<4>>),
       DoorTag(6, 100, 200, -1, FALSE),
       CheckpointTag(0, 300, 200),
       WindTag(0, 500, 200, 100, 50, 2, 1),
       LadderTag(0, 700, 200, 50, 100),
       DeadlyTag(0, 900, 200, 50, 50),
       BotTag(0, 1100, 200, << <<1000, 200>> >>) >>

PairsRoom1 ==
    << DoorTag(1, 50, 50, 0, FALSE),
       DoorTag(3, 150, 50, 2, TRUE),
       DoorTag(5, 250, 50, 4, TRUE),
       KeyTag(2, 350, 50, <<5>>) >>

\* "oneway": door 2 leads to door 0, which leads to door 1 (fails test_doors)
OnewayRoom0 ==
    << DoorTag(2, 300, 100, 0, FALSE),
       DoorTag(0, 100, 100, 1, FALSE) >>

OnewayRoom1 == << DoorTag(1, 50, 50, 0, FALSE) >>

\* "hazard": a bot that patrols across a door, a deadly block that covers a
\* part of a door (fails test_blocksoverlapping)
HazardRoom0 ==
    << DoorTag(0, 100, 100, 1, FALSE),
       BotTag(0, 152, 100, << <<52, 100>> >>),
       DoorTag(2, 300, 100, 3, FALSE),
       DeadlyTag(0, 330, 100, 50, 50),
       CheckpointTag(0, 500, 100),
       KeyTag(0, 510, 100, <<2>>) >>

HazardRoom1 ==
    << DoorTag(1, 50, 50, 0, FALSE),
       DoorTag(3, 150, 50, 2, FALSE) >>

\* "stray": one room of one page, and a Character element right of it
StrayRoom0 ==
    << WallTag(0, 0, 300, 500, 50) >>

\* "windy": a bot that patrols through a wind area
WindyRoom0 ==
    << WindTag(0, 100, 100, 50, 50, 2, 1),
       BotTag(0, 152, 110, << <<52, 110>> >>) >>

\* "saves": two rooms, each with a checkpoint on its door, and a bot that
\* patrols across the door of room 1
SavesRoom0 ==
    << DoorTag(0, 100, 100, 1, FALSE),
       CheckpointTag(0, 100, 100) >>

SavesRoom1 ==
    << DoorTag(1, 50, 50, 0, FALSE),
       CheckpointTag(1, 50, 50),
       BotTag(0, 72, 50, << <<22, 50>> >>) >>

\* "ceiling": a wall right above the start
CeilingRoom0 ==
    << WallTag(0, 0, 0, 500, 50) >>

\* "wide": one room of three pages in a row
WideRoom0 ==
    << WallTag(0, 0, 300, 2500, 50) >>

\* "dangling": door 0 leads to a door that does not exist while door 1 leads
\* to door 0; key 0 opens a door that does not exist (fails test_doors and
\* test_keys)
DanglingRoom0 ==
    << DoorTag(0, 100, 100, 5, FALSE),
       DoorTag(1, 300, 100, 0, TRUE),
       KeyTag(0, 700, 100, <<9>>) >>

\* "barrier": a wall across the leg of bot 0, a wall just below the leg of bot 1
BarrierRoom0 ==
    << WallTag(0, 135, 50, 10, 100),
       BotTag(0, 100, 100, << <<200, 100>> >>),
       WallTag(1, 0, 332, 400, 20),
       BotTag(1, 100, 300, << <<200, 300>> >>) >>

\* "draft": a door inside a wind area, whose partner in room 1 has coordinates
\* inside the rectangle of that wind area (fails test_blocksoverlapping)
DraftRoom0 ==
    << WindTag(0, 100, 100, 100, 100, 2, 1),
       DoorTag(0, 120, 120, 1, FALSE) >>

DraftRoom1 == << DoorTag(1, 130, 130, 0, FALSE) >>

\* "verge": key 0 left of the room, key 1 under a deadly block, both for the
\* locked door 2 (fails test_inipos from the first start, and
\* test_blocksoverlapping)
VergeRoom0 ==
    << DoorTag(2, 300, 100, -1, TRUE),
       KeyTag(0, -40, 50, <<2>>),
       KeyTag(1, 500, 100, <<2>>),
       DeadlyTag(0, 530, 100, 50, 50) >>

\* the Room elements of a map file, by roomnumber
MapRooms(m) ==
    CASE m = "pairs" -> <<PairsRoom0, PairsRoom1>>
      [] m = "oneway" -> <<OnewayRoom0, OnewayRoom1>>
      [] m = "hazard" -> <<HazardRoom0, HazardRoom1>>
      [] m = "stray" -> <<StrayRoom0>>
      [] m = "windy" -> <<WindyRoom0>>
      [] m = "saves" -> <<SavesRoom0, SavesRoom1>>
      [] m = "ceiling" -> <<CeilingRoom0>>
      [] m = "wide" -> <<WideRoom0>>
      [] m = "dangling" -> <<DanglingRoom0>>
      [] m = "barrier" -> <<BarrierRoom0>>
      [] m = "draft" -> <<DraftRoom0, DraftRoom1>>
      [] m = "verge" -> <<VergeRoom0>>

\* the Character elements the model tries with a map: <<initialroom, x, y>>
MapStarts(m) ==
    CASE m = "pairs" ->
           { <<0, 115, 115>>, <<0, 315, 115>>, <<0, 515, 115>>, <<0, 915, 115>>,
             <<0, 115, 215>>, <<0, 315, 215>>, <<0, 578, 215>>, <<0, 715, 240>>,
             <<0, 940, 215>>, <<0, 1075, 205>>, <<0, 200, 280>>, <<0, 988, 50>>,
             <<0, 715, 180>>,
             <<0, 1996, 50>>, <<0, 0, 50>>, <<0, -5, 50>>, <<1, 65, 65>>,
             <<1, 365, 65>> }
      [] m = "oneway" -> { <<0, 115, 115>>, <<0, 315, 115>>, <<1, 65, 65>> }
      [] m = "hazard" -> { <<0, 130, 110>>, <<0, 325, 110>>, <<0, 515, 110>>, <<1, 65, 65>> }
      [] m = "stray" -> { <<0, 1200, 50>> }
      [] m = "windy" -> { <<0, 125, 110>> }
      [] m = "saves" -> { <<0, 115, 115>> }
      [] m = "ceiling" -> { <<0, 100, 55>> }
      [] m = "wide" -> { <<0, 1985, 50>> }
      [] m = "dangling" -> { <<0, 115, 115>>, <<0, 715, 115>> }
      [] m = "barrier" -> { <<0, 500, 100>> }
      [] m = "draft" -> { <<0, 135, 135>> }
      [] m = "verge" -> { <<0, -25, 60>>, <<0, 515, 115>> }

\* Maze.maploader: the rooms of a map
maploader(m) ==
    [i \in 1..Len(MapRooms(m)) |-> BuildRoom(NewRoom(i - 1), MapRooms(m)[i])]

\* what get_pressed may report in an iteration
PressedSets == {{}, {LEFT}, {RIGHT}, {UP}, {DOWN}, {SPACE}}

\* iterations of the loop a run of the model makes
MaxTicks == 3

\* Maze.__init__ for a new game and the locals of mazeloop at its entry, in a
\* process that ran no session before
\* ---- the checkpoint file ----
DigitChars == <<"0", "1", "2", "3", "4", "5", "6", "7", "8", "9">>

RECURSIVE Digits(_)
Digits(n) ==
    IF n < 10 THEN <<DigitChars[n + 1]>>
    ELSE Append(Digits(n \div 10), DigitChars[(n % 10) + 1])

\* the text an f-string puts for an integer
IntStr(n) == IF n < 0 THEN <<"-">> \o Digits(-n) ELSE Digits(n)

RECURSIVE DigitsValue(_)
DigitsValue(cs) ==
    IF cs = <<>> THEN 0
    ELSE 10 * DigitsValue(SubSeq(cs, 1, Len(cs) - 1))
         + ((CHOOSE i \in 1..10 : DigitChars[i] = cs[Len(cs)]) - 1)

\* int() of the text of a line
StrInt(cs) == IF Head(cs) = "-" THEN -DigitsValue(Tail(cs)) ELSE DigitsValue(cs)

\* Maze.savepoint that opens the file for appending
savepoint_Append(file, roompos, checkpoint_id) ==
    file \o <<IntStr(roompos), IntStr(checkpoint_id)>>

\* Maze.savepoint: the file, opened with 'w', holds the two lines written
savepoint(file, roompos, checkpoint_id) ==
    <<IntStr(roompos), IntStr(checkpoint_id)>>

\* Maze.loadchp that opens the file without asking whether there is one
loadchp_Unchecked(st, file) ==
    IF file = None THEN [st EXCEPT !.outcome = "crash"]
    ELSE [st EXCEPT !.croom = StrInt(file[1]), !.cursor.cridx = StrInt(file[1])]

\* Maze.loadchp on a maze just loaded, with the croom setter
loadchp(st, file) ==
    IF file = None THEN st
    ELSE LET idroom == StrInt(file[1])
             idcp == StrInt(file[2])
             chps == Room(st.rooms, idroom).checkpoints
             i == FirstTrue([j \in 1..Len(chps) |-> chps[j].id = idcp])
             st1 == [st EXCEPT !.croom = idroom, !.cursor.cridx = idroom]
         IN IF i = 0 THEN st1
            ELSE [st1 EXCEPT !.cursor.aurect.x = chps[i].aurect.x,
                             !.cursor.aurect.y = chps[i].aurect.y]

NewMaze(m, st) ==
    [rooms |-> maploader(m), croom |-> st[1],
     cursor |-> NewCharacter(<<st[2], st[3]>>, st[1]), cpp |-> None,
     queue |-> <<>>, enterroom |-> TRUE, dying |-> FALSE,
     cursorinside |-> None, outcome |-> "running"]

\* Maze.__init__ for a new game, and the entry of mazeloop
Init ==
    \E m \in MapIds : \E st \in MapStarts(m) :
        /\ mapid = m
        /\ start = st
        /\ rooms = maploader(m)
        /\ croom = st[1]
        /\ cursor = NewCharacter(<<st[2], st[3]>>, st[1])
        /\ cpp = None
        /\ queue = <<>>
        /\ enterroom = TRUE
        /\ dying = FALSE
        /\ kup = FALSE
        /\ cursorinside = None
        /\ chpfile = None
        /\ outcome = "running"
        /\ ticks = 0
        /\ refst = NewMaze(m, st)
        /\ arrivals = 0
        /\ loadfile = "None"

Running == outcome = "running"

\* the event the loop over pygame.event.get() handles next
Handling(t) == Running /\ queue # <<>> /\ Head(queue).type = t

\* a variant of the test of crossdoor that lets the destination -1 through
IsExit_Below(destination) == destination < -1

\* Maze.crossdoor: "if destination < 0"
IsExit(destination) == destination < 0

\* ENTERDOOREVENT: Maze.crossdoor; sys.exit("You win!") for a negative destination
HandleEnterDoor ==
    /\ Handling("ENTERDOOREVENT")
    /\ LET ev == Head(queue)
       IN IF IsExit(ev.destination)
          THEN /\ outcome' = "win"
               /\ UNCHANGED <<croom, cursor>>
          ELSE LET res == crossdoor(rooms, croom, cursor, ev.door_id, ev.destination)
               IN /\ croom' = res.croom
                  /\ cursor' = res.cursor
                  /\ UNCHANGED outcome
    /\ queue' = Tail(queue)
    /\ UNCHANGED <<mapid, start, loadfile, arrivals, refst, rooms, cpp, enterroom, dying,
                   kup, cursorinside, chpfile, ticks>>

\* TAKEKEYEVENT: Maze.keytaken
HandleTakeKey ==
    /\ Handling("TAKEKEYEVENT")
    /\ rooms' = keytaken(rooms, Head(queue).openeddoor)
    /\ queue' = Tail(queue)
    /\ UNCHANGED <<mapid, start, loadfile, arrivals, refst, croom, cursor, cpp,
                   enterroom, dying, kup, cursorinside,
                   chpfile, outcome, ticks>>

\* CHECKPEVENT: Maze.savepoint
HandleCheckp ==
    /\ Handling("CHECKPEVENT")
    /\ chpfile' = savepoint(chpfile, croom, Head(queue).key_id)
    /\ queue' = Tail(queue)
    /\ UNCHANGED <<mapid, start, loadfile, arrivals, refst, rooms, croom, cursor, cpp,
                   enterroom, dying, kup,
                   cursorinside, outcome, ticks>>

\* ENTERINGEVENT: setforcefield(gravity + wind)
HandleEntering ==
    /\ Handling("ENTERINGEVENT")
    /\ cursor' = setforcefield(cursor, <<Gravity[1] + Head(queue).wind[1],
                                         Gravity[2] + Head(queue).wind[2]>>)
    /\ queue' = Tail(queue)
    /\ UNCHANGED <<mapid, start, loadfile, arrivals, refst, rooms, croom, cpp, enterroom,
                   dying, kup, cursorinside,
                   chpfile, outcome, ticks>>

\* EXITINGEVENT: setforcefield(gravity)
HandleExiting ==
    /\ Handling("EXITINGEVENT")
    /\ cursor' = setforcefield(cursor, Gravity)
    /\ queue' = Tail(queue)
    /\ UNCHANGED <<mapid, start, loadfile, arrivals, refst, rooms, croom, cpp, enterroom,
                   dying, kup, cursorinside,
                   chpfile, outcome, ticks>>

\* the handling of a death event that also removes the checkpoint file
HandleDeath_Remove ==
    /\ Handling("DEATHEVENT")
    /\ rooms' = [i \in 1..Len(rooms) |-> empty(rooms[i])]
    /\ outcome' = "died"
    /\ queue' = <<>>
    /\ chpfile' = None
    /\ UNCHANGED <<mapid, start, loadfile, arrivals, refst, croom, cursor, cpp,
                   enterroom, dying, kup,
                   cursorinside, ticks>>

\* DEATHEVENT: every room is emptied and mazeloop returns; the events got
\* after it are dropped with the list
HandleDeath ==
    /\ Handling("DEATHEVENT")
    /\ rooms' = [i \in 1..Len(rooms) |-> empty(rooms[i])]
    /\ outcome' = "died"
    /\ queue' = <<>>
    /\ UNCHANGED <<mapid, start, loadfile, arrivals, refst, croom, cursor, cpp,
                   enterroom, dying, kup,
                   cursorinside, chpfile, ticks>>

\* The events of the player come after the posted ones: pygame.event.get()
\* pumps them when it is called, the posted events are in the queue already.
\* KEYDOWN with K_UP
HandleKeyUp ==
    /\ Running /\ queue = <<>> /\ ~kup
    /\ ticks < MaxTicks
    /\ kup' = TRUE
    /\ UNCHANGED <<mapid, start, loadfile, arrivals, refst, rooms, croom, cursor, cpp,
                   queue, enterroom, dying,
                   cursorinside, chpfile, outcome, ticks>>

\* QUIT: sys.exit()
HandleQuit ==
    /\ Running /\ queue = <<>>
    /\ outcome' = "quit"
    /\ refst' = IF refst.outcome = "running" THEN [refst EXCEPT !.outcome = "quit"] ELSE refst
    /\ UNCHANGED <<mapid, start, loadfile, arrivals, rooms, croom, cursor, cpp, queue,
                   enterroom, dying, kup,
                   cursorinside, chpfile, ticks>>

\* what the loop over pygame.event.get() does with a posted event
handle(st, ev) ==
    CASE ev.type = "ENTERDOOREVENT" ->
           IF IsExit(ev.destination) THEN [st EXCEPT !.outcome = "win"]
           ELSE LET res == crossdoor(st.rooms, st.croom, st.cursor, ev.door_id, ev.destination)
                IN [st EXCEPT !.croom = res.croom, !.cursor = res.cursor]
      [] ev.type = "TAKEKEYEVENT" -> [st EXCEPT !.rooms = keytaken(@, ev.openeddoor)]
      [] ev.type = "CHECKPEVENT" -> st
      [] ev.type = "ENTERINGEVENT" ->
           [st EXCEPT !.cursor = setforcefield(@, <<Gravity[1] + ev.wind[1],
                                                    Gravity[2] + ev.wind[2]>>)]
      [] ev.type = "EXITINGEVENT" -> [st EXCEPT !.cursor = setforcefield(@, Gravity)]
      [] ev.type = "DEATHEVENT" ->
           [st EXCEPT !.rooms = [i \in 1..Len(st.rooms) |-> empty(st.rooms[i])],
                      !.outcome = "died", !.queue = <<>>]

RECURSIVE Drain(_)
\* the loop over pygame.event.get() on the posted events of an iteration
Drain(st) ==
    IF st.queue = <<>> \/ st.outcome # "running" THEN st
    ELSE Drain(handle([st EXCEPT !.queue = Tail(@)], Head(st.queue)))

\* the values an iteration works on
LoopState ==
    [rooms |-> rooms, croom |-> croom, cursor |-> cursor, cpp |-> cpp,
     queue |-> queue, enterroom |-> enterroom, dying |-> dying,
     cursorinside |-> cursorinside, outcome |-> outcome]

\* the rest of an iteration, after the loop over the events; the next
\* iteration starts with "kup = False"
Body(pressed) ==
    /\ Running /\ queue = <<>>
    /\ ticks < MaxTicks
    /\ \E st \in {LoopBody(LoopState, kup, pressed)} :
          /\ rooms' = st.rooms
          /\ cursor' = st.cursor
          /\ cpp' = st.cpp
          /\ queue' = st.queue
          /\ enterroom' = st.enterroom
          /\ dying' = st.dying
          /\ cursorinside' = st.cursorinside
          /\ outcome' = st.outcome
    /\ refst' = IF refst.outcome = "running"
                THEN Drain(LoopBody(refst, kup, pressed))
                ELSE refst
    /\ kup' = FALSE
    /\ ticks' = ticks + 1
    /\ UNCHANGED <<mapid, start, loadfile, arrivals, croom, chpfile>>

Tick == \E pressed \in PressedSets : Body(pressed)

\* TopLev.gameloop after mazeloop returned: the menu, then "game = Maze(self.fn)"
\* and mazeloop again, in the same process; a new game removes the checkpoint
\* file, the class attribute WindArea.cursorinside stays as the last loop left it
NewGame ==
    /\ outcome = "died"
    /\ refst' = NewMaze(mapid, start)
    /\ rooms' = refst'.rooms
    /\ croom' = refst'.croom
    /\ cursor' = refst'.cursor
    /\ cpp' = refst'.cpp
    /\ queue' = refst'.queue
    /\ enterroom' = refst'.enterroom
    /\ dying' = refst'.dying
    /\ outcome' = refst'.outcome
    /\ chpfile' = None
    /\ loadfile' = "None"
    /\ kup' = FALSE
    /\ ticks' = 0
    /\ UNCHANGED <<mapid, start, arrivals, cursorinside>>

Next ==
    \/ HandleEnterDoor
    \/ HandleTakeKey
    \/ HandleCheckp
    \/ HandleEntering
    \/ HandleExiting
    \/ HandleDeath
    \/ HandleKeyUp
    \/ HandleQuit
    \/ Tick
    \/ NewGame

Spec == Init /\ [][Next]_vars

\* Maze(fn, loadfile=-1) once a session has ended: the map is loaded again and
\* loadchp reads the checkpoint file; a session that died returned to the menu
\* of its process, one that was quit or won ended the process with sys.exit
Resume ==
    /\ outcome \in {"died", "quit", "win"}
    /\ refst' = loadchp(NewMaze(mapid, start), chpfile)
    /\ rooms' = refst'.rooms
    /\ croom' = refst'.croom
    /\ cursor' = refst'.cursor
    /\ cpp' = refst'.cpp
    /\ queue' = refst'.queue
    /\ enterroom' = refst'.enterroom
    /\ dying' = refst'.dying
    /\ outcome' = refst'.outcome
    /\ kup' = FALSE
    /\ ticks' = 0
    /\ cursorinside' = IF outcome = "died" THEN cursorinside ELSE None
    /\ loadfile' = "-1"
    /\ UNCHANGED <<mapid, start, arrivals, chpfile>>

\* the sessions of a process, started anew or from the checkpoint
SpecChp == Init /\ [][Next \/ Resume]_vars

\* ---- src/testmap.py: the validation of a map ----
RECURSIVE Flatten(_)
Flatten(ss) == IF ss = <<>> THEN <<>> ELSE Head(ss) \o Flatten(Tail(ss))

\* TestMaze.getdoorlist, TestMaze.getkeylist
getdoorlist(rms) == Flatten([i \in 1..Len(rms) |-> rms[i].doors])

getkeylist(rms) == Flatten([i \in 1..Len(rms) |-> rms[i].keys])

\* TestMaze.test_doors: TRUE when no assertion fails
test_doors(rms) ==
    LET doorlist == getdoorlist(rms)
        target(door) ==
            LET both(dd) == dd.id = door.destination /\ dd.destination = door.id
            IN SelectSeq(doorlist, both)
    IN \A i \in 1..Len(doorlist) :
          LET door == doorlist[i]
          IN door.destination >= 0 =>
                /\ door.id # door.destination
                /\ Len(target(door)) = 1
                /\ door.locked = target(door)[1].locked

\* TestMaze.test_keys: TRUE when no assertion fails (and no index is out of range)
\* a test_keys without the assertion on the two doors of a key
test_keys_NoPartners(rms) ==
    LET doorlist == getdoorlist(rms)
        keylist == getkeylist(rms)
    IN /\ \A i \in 1..Len(doorlist) :
             doorlist[i].locked =>
                \E k \in 1..Len(keylist) : InSeq(doorlist[i].id, keylist[k].whoopen)
       /\ \A k \in 1..Len(keylist) :
             /\ Len(keylist[k].whoopen) # 0
             /\ ~(Len(keylist[k].whoopen) > 2)

test_keys(rms) ==
    LET doorlist == getdoorlist(rms)
        keylist == getkeylist(rms)
        opened(key) ==
            LET named(dd) == InSeq(dd.id, key.whoopen) IN SelectSeq(doorlist, named)
    IN /\ \A i \in 1..Len(doorlist) :
             doorlist[i].locked =>
                \E k \in 1..Len(keylist) : InSeq(doorlist[i].id, keylist[k].whoopen)
       /\ \A k \in 1..Len(keylist) :
             /\ Len(keylist[k].whoopen) # 0
             /\ Len(keylist[k].whoopen) = 2 =>
                   /\ Len(opened(keylist[k])) >= 2
                   /\ opened(keylist[k])[1].id = opened(keylist[k])[2].destination
                   /\ opened(keylist[k])[2].id = opened(keylist[k])[1].destination
             /\ ~(Len(keylist[k].whoopen) > 2)

\* ---- the specification of Room.offscreen as test_inipos uses it ----
\* page extents and positions tried, in map units
OffExtents == {500, 1500}

OffCoords == {-1500, -1, 0, 999, 1000, 1999, 2000}

InitOff ==
    \E w \in OffExtents, h \in OffExtents, x \in OffCoords, y \in OffCoords :
        /\ mapid = "inipos"
        /\ start = <<0, x, y>>
        /\ rooms = << BuildRoom(NewRoom(0), << WallTag(0, 0, 0, w, h) >>) >>
        /\ croom = 0
        /\ cursor = NewCharacter(<<x, y>>, 0)
        /\ cpp = None
        /\ queue = <<>>
        /\ enterroom = TRUE
        /\ dying = FALSE
        /\ kup = FALSE
        /\ cursorinside = None
        /\ chpfile = None
        /\ outcome = "running"
        /\ ticks = 0
        /\ refst = None
        /\ arrivals = 0
        /\ loadfile = "None"

\* TestMaze.test_inipos: offscreen of the character's initial position; the
\* offset is kept in cpp, as the loop does on entering a room
TestInipos ==
    /\ Running /\ cpp = None
    /\ LET off == offscreen(Room(rooms, croom), cursor.aurect)
       IN IF off = Raised
          THEN outcome' = "failed" /\ UNCHANGED cpp
          ELSE outcome' = "passed" /\ cpp' = off
    /\ UNCHANGED <<mapid, start, loadfile, arrivals, refst, rooms, croom, cursor, queue,
                   enterroom, dying, kup,
                   cursorinside, chpfile, ticks>>

SpecOff == InitOff /\ [][TestInipos]_vars

\* ======================= properties =======================
\* helpers of the formulas
AllDoors(rms) == {<<r, i>> \in RoomIds(rms) \X (1..8) : i <= Len(Room(rms, r).doors)}

DoorAt(rms, p) == Room(rms, p[1]).doors[p[2]]

Partners(a, b) ==
    /\ a.destination >= 0 /\ b.destination >= 0
    /\ a.destination = b.id /\ b.destination = a.id

\* the step is an iteration of the loop (the part after the events)
Iteration == ticks' = ticks + 1

\* an event of type t is in the queue after the step, posted by it
Posted(t) == queue = <<>> /\ \E i \in 1..Len(queue') : queue'[i].type = t

ValidMap(m) == test_doors(maploader(m)) /\ test_keys(maploader(m))

\* C1: for any two doors A and B that are reciprocal partners, handling the
\* door-enter event of A (crossdoor(A.id, A.destination)) makes B's room the
\* current room and the character's room, and puts the character at B's x, y.
C1_CrossToPartner ==
    [][\A pa \in AllDoors(rooms) : \A pb \in AllDoors(rooms) :
          ( /\ Handling("ENTERDOOREVENT")
            /\ pa # pb
            /\ Partners(DoorAt(rooms, pa), DoorAt(rooms, pb))
            /\ Head(queue).door_id = DoorAt(rooms, pa).id
            /\ Head(queue).destination = DoorAt(rooms, pa).destination )
          => ( /\ croom' = pb[1]
               /\ cursor'.cridx = pb[1]
               /\ cursor'.aurect.x = DoorAt(rooms, pb).aurect.x
               /\ cursor'.aurect.y = DoorAt(rooms, pb).aurect.y )]_vars

\* C2: on any map, handling a door-enter event with destination >= 0 puts the
\* character at the door whose id is the destination, in that door's room, and
\* the offset is computed again (enterroom is set) before the next movement.
C2_CrossToDestinationId ==
    [][( Handling("ENTERDOOREVENT") /\ Head(queue).destination >= 0 )
          => ( /\ enterroom'
               /\ \A p \in AllDoors(rooms) :
                     DoorAt(rooms, p).id = Head(queue).destination
                        => ( /\ croom' = p[1]
                             /\ cursor'.aurect.x = DoorAt(rooms, p).aurect.x
                             /\ cursor'.aurect.y = DoorAt(rooms, p).aurect.y ) )]_vars

\* C3: handling the door-enter event of a door with a negative destination
\* ends the loop with the outcome win, whatever the rooms hold, with the
\* current room, the character and the rooms as they were; win is final.
C3_ExitWins ==
    [][ /\ ( Handling("ENTERDOOREVENT") /\ Head(queue).destination < 0 )
           => ( outcome' = "win" /\ croom' = croom /\ cursor' = cursor /\ rooms' = rooms )
        /\ outcome = "win" => outcome' = "win" ]_vars

C3_Witness == outcome = "win" /\ ticks >= 1

\* C4: a door-enter event is posted only in an iteration that got an up
\* key-down, for a door of the current room that contains the character and is
\* not locked; and when a door-enter event is handled, the door of the current
\* room it names is not locked: no room change and no win through a locked door.
C4_DoorEventOnlyUnlocked ==
    [][ /\ Posted("ENTERDOOREVENT")
           => ( /\ kup
                /\ \E i \in 1..Len(Room(rooms, croom).doors) :
                      LET d == Room(rooms, croom).doors[i]
                      IN /\ queue'[Len(queue')] = EnterDoorEvent(d)
                         /\ contains(d.aurect, cursor.aurect)
                         /\ ~d.locked )
        /\ Handling("ENTERDOOREVENT")
           => \E i \in 1..Len(Room(rooms, croom).doors) :
                 LET d == Room(rooms, croom).doors[i]
                 IN /\ d.id = Head(queue).door_id
                    /\ d.destination = Head(queue).destination
                    /\ contains(d.aurect, cursor.aurect)
                    /\ ~d.locked ]_vars

C4_Witness == Handling("ENTERDOOREVENT") /\ mapid = "pairs"

\* the keys of the rooms, as <<roompos, index>> pairs
AllKeys(rms) == {<<r, i>> \in RoomIds(rms) \X (1..8) : i <= Len(Room(rms, r).keys)}

KeyAt(rms, p) == Room(rms, p[1]).keys[p[2]]

DoorsOf(rms) == [r \in RoomIds(rms) |-> Room(rms, r).doors]

KeysOf(rms) == [r \in RoomIds(rms) |-> Room(rms, r).keys]

\* the character is fully inside no checkpoint and no unlocked door of its room
NoOtherTrigger ==
    /\ \A i \in 1..Len(Room(rooms, croom).checkpoints) :
          ~contains(Room(rooms, croom).checkpoints[i].aurect, cursor.aurect)
    /\ \A i \in 1..Len(Room(rooms, croom).doors) :
          ~DoorEntered(Room(rooms, croom).doors[i], cursor.aurect)

\* C5: handling the pickup event of a key that opens [d1, d2] leaves every door
\* with id d1 or d2, in whichever room, unlocked; and an iteration with an up
\* key-down while the character is fully inside a key already taken posts no
\* pickup event, changes no door and no key, and leaves the character as the
\* same iteration without the up key-down does.
C5_KeyOpensBothOnce ==
    [][ /\ ( Handling("TAKEKEYEVENT") /\ Len(Head(queue).openeddoor) = 2 )
           => \A p \in AllDoors(rooms') :
                 ( \E j \in 1..2 : DoorAt(rooms', p).id = Head(queue).openeddoor[j] )
                    => ~DoorAt(rooms', p).locked
        /\ ( /\ Iteration /\ kup /\ NoOtherTrigger
             /\ \E i \in 1..Len(Room(rooms, croom).keys) :
                   /\ Room(rooms, croom).keys[i].taken
                   /\ contains(Room(rooms, croom).keys[i].aurect, cursor.aurect) )
           => ( /\ \A i \in 1..Len(queue') : queue'[i].type # "TAKEKEYEVENT"
                /\ DoorsOf(rooms') = DoorsOf(rooms)
                /\ KeysOf(rooms') = KeysOf(rooms)
                /\ \E pressed \in PressedSets :
                      cursor' = LoopBody(LoopState, FALSE, pressed).cursor ) ]_vars

\* both doors of the two-door key are open, the key is taken, and the
\* character is inside it again in an iteration that got an up key-down
C5_Witness ==
    /\ mapid = "pairs" /\ Running /\ croom = 0 /\ kup /\ queue = <<>> /\ ticks < MaxTicks
    /\ Room(rooms, 0).keys[1].taken
    /\ Room(rooms, 0).keys[1].whoopen = <<2, 3>>
    /\ contains(Room(rooms, 0).keys[1].aurect, cursor.aurect)
    /\ \A p \in AllDoors(rooms) : DoorAt(rooms, p).id \in {2, 3} => ~DoorAt(rooms, p).locked

UniquePartner(rms, pa) ==
    Cardinality({pb \in AllDoors(rms) : pb # pa /\ Partners(DoorAt(rms, pa), DoorAt(rms, pb))}) = 1

\* C6 as stated: from a map that passes test_doors and test_keys, every door
\* with destination >= 0 always has exactly one partner, and the two partners
\* always have equal locked flags, whichever key was picked up.
C6_PartnersAlwaysEqual ==
    ( Running /\ ValidMap(mapid) ) =>
        \A pa \in AllDoors(rooms) :
            DoorAt(rooms, pa).destination >= 0 =>
                /\ UniquePartner(rooms, pa)
                /\ \A pb \in AllDoors(rooms) :
                      Partners(DoorAt(rooms, pa), DoorAt(rooms, pb))
                         => DoorAt(rooms, pa).locked = DoorAt(rooms, pb).locked

\* a key that opens a single door of the pair has been picked up
SingleKeyTaken(rms, a, b) ==
    \E pk \in AllKeys(rms) :
        /\ KeyAt(rms, pk).taken
        /\ Len(KeyAt(rms, pk).whoopen) = 1
        /\ KeyAt(rms, pk).whoopen[1] \in {a.id, b.id}

\* C6 amended: from a map that passes test_doors and test_keys, every door with
\* destination >= 0 always has exactly one partner; the partners' locked flags
\* are equal unless a key that opens a single door of the pair was picked up,
\* so picking up a key that opens both doors keeps them equal.
C6_PartnersEqualUnlessSingleKey ==
    ( Running /\ ValidMap(mapid) ) =>
        \A pa \in AllDoors(rooms) :
            DoorAt(rooms, pa).destination >= 0 =>
                /\ UniquePartner(rooms, pa)
                /\ \A pb \in AllDoors(rooms) :
                      ( /\ Partners(DoorAt(rooms, pa), DoorAt(rooms, pb))
                        /\ ~SingleKeyTaken(rooms, DoorAt(rooms, pa), DoorAt(rooms, pb)) )
                         => DoorAt(rooms, pa).locked = DoorAt(rooms, pb).locked

\* the two-door key of a validated map is taken and its event handled
C6_Witness ==
    /\ mapid = "pairs" /\ ValidMap(mapid) /\ Running /\ queue = <<>>
    /\ Room(rooms, 0).keys[1].taken
    /\ ~Room(rooms, 0).doors[2].locked
    /\ ~Room(rooms, 1).doors[2].locked

\* the character overlaps a member of the group, in the room it is in
Overlaps(group) == \E i \in 1..Len(group) : colliderect(group[i].aurect, cursor.aurect)

DeathPosted == \E i \in 1..Len(queue') : queue'[i].type = "DEATHEVENT"

AllEmpty(rms) ==
    \A r \in RoomIds(rms) :
        /\ Room(rms, r).allblocks = <<>> /\ Room(rms, r).walls = <<>>
        /\ Room(rms, r).ladders = <<>> /\ Room(rms, r).deathblocks = <<>>
        /\ Room(rms, r).bots = <<>> /\ Room(rms, r).doors = <<>>
        /\ Room(rms, r).keys = <<>> /\ Room(rms, r).windareas = <<>>
        /\ Room(rms, r).checkpoints = <<>>

\* C7: an iteration that starts with the character overlapping a DeadlyBlock
\* of the current room posts the death event, whose handling ends the loop
\* with the outcome died; and once the outcome is died every group of every
\* room is empty.
C7_DeadlyBlockKills ==
    [][ /\ ( Iteration /\ Overlaps(Room(rooms, croom).deathblocks) )
           => ( DeathPosted /\ dying' )
        /\ Handling("DEATHEVENT") => outcome' = "died"
        /\ outcome' = "died" => AllEmpty(rooms') ]_vars

\* C8: an iteration that starts with the character overlapping an EnemyBot of
\* the current room posts the death event under any input, an up key-down
\* inside an unlocked door included, and its handling ends the loop with the
\* outcome died.
C8_BotContactKills ==
    [][ /\ ( Iteration /\ Overlaps(Room(rooms, croom).bots) )
           => ( DeathPosted /\ dying' )
        /\ Handling("DEATHEVENT") => outcome' = "died" ]_vars

\* the rectangle lies entirely outside [0, 1000*screens[0]) x [0, 1000*screens[1])
OutsideExtent(room, rect) ==
    \/ Right(rect) <= 0 \/ Left(rect) >= room.screens[1] * PAGE * U
    \/ Bottom(rect) <= 0 \/ Top(rect) >= room.screens[2] * PAGE * U

\* the iteration reached "handling movement"
Moved == Iteration /\ ~enterroom' /\ ~dying' /\ outcome' = "running"

\* C9: whatever the offset of the screen and the extent of the room, an
\* iteration whose movement leaves the character entirely outside the extent
\* of the current room posts the death event in that same iteration.
C9_LeavingExtentKills ==
    [][ ( Moved /\ OutsideExtent(Room(rooms', croom'), cursor'.aurect) )
           => DeathPosted ]_vars

\* the page of a coordinate: floor(x / 1000)
PageOf(x) == x \div (PAGE * U)

InExtent(room, rect) ==
    /\ 0 <= PageOf(rect.x) /\ PageOf(rect.x) < room.screens[1]
    /\ 0 <= PageOf(rect.y) /\ PageOf(rect.y) < room.screens[2]

\* C10: offscreen returns (floor(x/1000), floor(y/1000)) exactly when both are
\* >= 0 and below the screens of the room on their axis, and raises otherwise,
\* a negative component included; isoffvalid accepts what offscreen returns.
C10_OffscreenExact ==
    /\ outcome = "passed" =>
          /\ InExtent(Room(rooms, croom), cursor.aurect)
          /\ cpp = <<PageOf(cursor.aurect.x), PageOf(cursor.aurect.y)>>
          /\ isoffvalid(Room(rooms, croom), cpp)
    /\ outcome = "failed" => ~InExtent(Room(rooms, croom), cursor.aurect)

\* TestMaze.test_inipos on the Character elements of a map: offscreen of the
\* initial position in the initial room does not raise
test_inipos(m) ==
    \A st \in MapStarts(m) :
        offscreen(Room(maploader(m), st[1]), NewCharacter(<<st[2], st[3]>>, st[1]).aurect) # Raised

\* the offset the loop holds is not one isoffvalid accepts
BadOffset(rms, cr, off) == off # None /\ ~isoffvalid(Room(rms, cr), off)

\* C11: from a map whose start passes test_inipos the loop never ends with an
\* uncaught RuntimeError, neither on entering a room (at the start or after a
\* door crossing) nor on scrolling; an iteration that computes an offset
\* isoffvalid rejects posts the death event.
C11_OutOfBoundsIsDeath ==
    [][ test_inipos(mapid) =>
          /\ outcome' # "crash"
          /\ ( Iteration /\ enterroom
                /\ BadOffset(rooms, croom, offscreen(Room(rooms, croom), cursor.aurect)) )
                => DeathPosted
          /\ ( Iteration /\ cpp' # cpp /\ BadOffset(rooms', croom', cpp') ) => DeathPosted ]_vars

\* the death event of a rejected offset is about to be handled
C11_Witness ==
    /\ test_inipos(mapid) /\ Handling("DEATHEVENT")
    /\ BadOffset(rooms, croom, cpp)
    /\ ~Overlaps(Room(rooms, croom).deathblocks) /\ ~Overlaps(Room(rooms, croom).bots)

\* ---- a room built block by block ----
\* blocks a room can hold in this specification
MaxBlocks == 2

AddCorners == {0, 500, 1000}

AddSizes == {500, 1000}

\* the tags tried: walls whose right or bottom edge is inside a page or on a
\* page border, a door that ends on the border, and tags that name no block
\* class
AddTags ==
    {WallTag(0, x, y, w, 500) : x \in AddCorners, y \in {0, 500}, w \in AddSizes}
        \cup {DoorTag(0, 950, 950, -1, FALSE)}
        \cup {[Tag(t, 0, 1500, 1500) EXCEPT !.width = 100, !.height = 100] :
                 t \in {"Marker", "Spike"}}

\* Room.__init__: an empty room
InitAdd ==
    /\ mapid = "addelem"
    /\ start = <<0, 0, 0>>
    /\ rooms = << NewRoom(0) >>
    /\ croom = 0
    /\ cursor = NewCharacter(<<0, 0>>, 0)
    /\ cpp = None
    /\ queue = <<>>
    /\ enterroom = TRUE
    /\ dying = FALSE
    /\ kup = FALSE
    /\ cursorinside = None
    /\ chpfile = None
    /\ outcome = "running"
    /\ ticks = 0
    /\ refst = None
    /\ arrivals = 0
    /\ loadfile = "None"

\* Room.addelem for one more tag of the map file
AddOne(tg) ==
    /\ rooms' = << addelem(rooms[1], tg) >>
    /\ outcome' = IF tg.tag \in BlockKinds THEN outcome ELSE "crash"
    /\ UNCHANGED <<mapid, start, loadfile, arrivals, refst, croom, cursor, cpp, queue,
                   enterroom, dying, kup, cursorinside, chpfile, ticks>>

AddElem ==
    /\ outcome = "running"
    /\ Len(rooms[1].allblocks) < MaxBlocks
    /\ \E tg \in AddTags : AddOne(tg)

SpecAdd == InitAdd /\ [][AddElem]_vars

GroupRects(g) == {g[i].aurect : i \in 1..Len(g)}

BlockRects(room) ==
    GroupRects(room.walls) \cup GroupRects(room.ladders) \cup GroupRects(room.deathblocks)
        \cup GroupRects(room.bots) \cup GroupRects(room.doors) \cup GroupRects(room.keys)
        \cup GroupRects(room.windareas) \cup GroupRects(room.checkpoints)

\* ceil(v / 1000) of a coordinate
CeilPage(v) == -((-v) \div (PAGE * U))

\* max(1, max S)
Max1(S) == IF \E v \in S : v > 1 THEN CHOOSE m \in S : \A v \in S : v <= m ELSE 1

\* C12: after any insertions screens[0] = max(1, max ceil((x + width)/1000))
\* over the blocks of the room and screens[1] the same for y + height, also
\* for an edge on a multiple of 1000; and no insertion lowers a component.
C12_ExtentIsCeil ==
    [][ /\ rooms'[1].screens[1] = Max1({CeilPage(Right(r)) : r \in BlockRects(rooms'[1])})
        /\ rooms'[1].screens[2] = Max1({CeilPage(Bottom(r)) : r \in BlockRects(rooms'[1])})
        /\ rooms'[1].screens[1] >= rooms[1].screens[1]
        /\ rooms'[1].screens[2] >= rooms[1].screens[2] ]_vars

InQueue(q, t) == \E i \in 1..Len(q) : q[i].type = t

\* a member of the group fully contains the character
Inside(group) == \E i \in 1..Len(group) : contains(group[i].aurect, cursor.aurect)

\* C13: an iteration posts at most one of the checkpoint, door and key events;
\* with the character fully inside a checkpoint it posts no door and no key
\* event, and with the character fully inside an unlocked door no key event.
C13_OneTriggerPerTick ==
    [][ Iteration =>
          /\ Cardinality({t \in {"CHECKPEVENT", "ENTERDOOREVENT", "TAKEKEYEVENT"} :
                             InQueue(queue', t)}) <= 1
          /\ Inside(Room(rooms, croom).checkpoints)
                => ~InQueue(queue', "ENTERDOOREVENT") /\ ~InQueue(queue', "TAKEKEYEVENT")
          /\ ( \E i \in 1..Len(Room(rooms, croom).doors) :
                  DoorEntered(Room(rooms, croom).doors[i], cursor.aurect) )
                => ~InQueue(queue', "TAKEKEYEVENT") ]_vars

\* the force field of the character
Accel(cur) == <<cur.ax, cur.ay>>

\* no wind event is waiting in the queue
WindSettled(q) == ~InQueue(q, "ENTERINGEVENT") /\ ~InQueue(q, "EXITINGEVENT")

\* C14: WindArea.cursorinside names at most one area; once its entering event
\* is handled and until its exiting event is handled the force field of the
\* character is gravity + the wind of that area, and gravity with no area
\* active; an entering event is posted only with no area active and an exiting
\* event only for the active one, so the two alternate.
C14_OneWindActive ==
    [][ /\ ( outcome' = "running" /\ WindSettled(queue') )
           => Accel(cursor') = IF cursorinside' = None THEN Gravity
                               ELSE <<Gravity[1] + cursorinside'[1].wind[1],
                                      Gravity[2] + cursorinside'[1].wind[2]>>
        /\ Posted("ENTERINGEVENT") => ( cursorinside = None /\ cursorinside' # None )
        /\ Posted("EXITINGEVENT") => ( cursorinside # None /\ cursorinside' = None )
        /\ Len(SelectSeq(queue', LAMBDA e : e.type \in {"ENTERINGEVENT", "EXITINGEVENT"})) <= 1 ]_vars

\* ---- the patrol of one EnemyBot, frame by frame ----
MaxMarkers == 2
MaxArrivals == 4

PatrolCoords == {100, 107, 115}

PatrolPoints == PatrolCoords \X {100, 107}

\* the waypoint lists whose legs, the closing one included, are parallel to an axis
AxisParallel(mk, sp) ==
    LET pts == mk \o <<sp>>
        n == Len(pts)
    IN \A i \in 1..n :
          LET p == pts[i]
              q == pts[(i % n) + 1]
          IN p[1] = q[1] \/ p[2] = q[2]

PatrolTags ==
    { BotTag(0, sp[1], sp[2], mk) :
        <<mk, sp>> \in { c \in (UNION { [1..k -> PatrolPoints] : k \in 0..MaxMarkers })
                                  \X PatrolPoints : AxisParallel(c[1], c[2]) } }

InitBot ==
    \E tg \in PatrolTags :
        /\ mapid = "patrol"
        /\ start = <<0, 0, 0>>
        /\ rooms = << BuildRoom(NewRoom(0), <<tg>>) >>
        /\ croom = 0
        /\ cursor = NewCharacter(<<0, 0>>, 0)
        /\ cpp = None
        /\ queue = <<>>
        /\ enterroom = TRUE
        /\ dying = FALSE
        /\ kup = FALSE
        /\ cursorinside = None
        /\ chpfile = None
        /\ outcome = "running"
        /\ ticks = 0
        /\ refst = None
        /\ arrivals = 0
        /\ loadfile = "None"

\* the bot is closer to its waypoint than one frame of travel
Arrives(bot) == Norm2(distance2(bot.nextrect, bot.aurect)) < 2 * (BotSpeed * TPFU)

\* one call of movebot for the bot of the room
MoveBot ==
    /\ arrivals < MaxArrivals
    /\ LET bot == rooms[1].bots[1]
       IN /\ rooms' = [rooms EXCEPT ![1].bots[1] = movebot(bot)]
          /\ arrivals' = IF Arrives(bot) THEN arrivals + 1 ELSE arrivals
    /\ UNCHANGED <<mapid, start, loadfile, refst, croom, cursor, cpp, queue, enterroom, dying, kup,
                   cursorinside, chpfile, outcome, ticks>>

SpecBot == InitBot /\ [][MoveBot]_vars

\* the tag a bot was constructed from
PatrolTag(bot) ==
    LET pm == bot.pathmarkers
        n == Len(pm)
    IN BotTag(bot.id, pm[n].x \div U, pm[n].y \div U,
              [i \in 1..(n - 1) |-> <<pm[i].x \div U, pm[i].y \div U>>])

\* C15: with a cyclic waypoint list of N entries (the markers, then the spawn
\* position), the arrival that makes N arrivals leaves the bot exactly on its
\* spawn position, with the target index and the velocity it had right after
\* construction.
C15_PatrolCloses ==
    [][ LET bot == rooms'[1].bots[1]
            fresh == NewBot(bot.oid, PatrolTag(bot))
        IN ( arrivals' # arrivals /\ arrivals' = Len(bot.pathmarkers) )
              => /\ bot.aurect = fresh.aurect
                 /\ bot.ipm = fresh.ipm
                 /\ bot.curspeed = fresh.curspeed ]_vars

\* a bot with two markers is back on its spawn position after its third arrival
C15_Witness ==
    LET bot == rooms[1].bots[1]
        pm == bot.pathmarkers
    IN /\ mapid = "patrol"
       /\ Len(pm) = 3 /\ arrivals = 3
       /\ pm[1] # pm[3] /\ pm[2] # pm[3] /\ pm[1] # pm[2]
       /\ bot.aurect = pm[3]

\* what a run shows of a loop state: the character's position, velocity and
\* force field, the current room, the page offset, the bots' positions, the
\* doors' locks, the keys' taken flags and the outcome
Observed(st) ==
    [pos |-> <<st.cursor.aurect.x, st.cursor.aurect.y>>,
     vel |-> <<st.cursor.dvx, st.cursor.dvy>>,
     acc |-> <<st.cursor.ax, st.cursor.ay>>,
     croom |-> st.croom,
     cpp |-> st.cpp,
     bots |-> [r \in 1..Len(st.rooms) |->
                  [i \in 1..Len(st.rooms[r].bots) |-> st.rooms[r].bots[i].aurect]],
     locked |-> [r \in 1..Len(st.rooms) |->
                    [i \in 1..Len(st.rooms[r].doors) |-> st.rooms[r].doors[i].locked]],
     taken |-> [r \in 1..Len(st.rooms) |->
                   [i \in 1..Len(st.rooms[r].keys) |-> st.rooms[r].keys[i].taken]],
     outcome |-> st.outcome]

\* C16: a session and the same session run with the same inputs in a process of
\* its own show the same state after every iteration and its events, and end
\* with the same outcome, whatever sessions ran before in the process.
C16_SameInputsSameRun ==
    ( mapid \in MapIds /\ queue = <<>> ) => Observed(LoopState) = Observed(refst)

\* the checkpoint of a room with the given id, None without one
CheckpointOf(rms, r, id) ==
    LET chps == Room(rms, r).checkpoints
        S == {i \in 1..Len(chps) : chps[i].id = id}
    IN IF S = {} THEN None ELSE <<chps[CHOOSE i \in S : TRUE]>>

\* C17: every save leaves the file holding the one pair (current room id,
\* checkpoint id) of that save, whatever was saved before; resuming with a file
\* makes the room of the pair the current room and puts the character on the
\* x, y of the checkpoint of that id in that room.
C17_ResumeAtLastSave ==
    [][ /\ Handling("CHECKPEVENT")
           => /\ Len(chpfile') = 2
              /\ <<StrInt(chpfile'[1]), StrInt(chpfile'[2])>> = <<croom, Head(queue).key_id>>
        /\ ( Resume /\ chpfile # None )
           => LET r == StrInt(chpfile[1])
                  chp == CheckpointOf(rooms', r, StrInt(chpfile[2]))
              IN /\ croom' = r
                 /\ chp # None
                 /\ cursor'.aurect.x = chp[1].aurect.x
                 /\ cursor'.aurect.y = chp[1].aurect.y ]_vars

\* a session resumed in room 1, where the second save of the session before
\* was made, on a map that starts in room 0
C17_Witness ==
    /\ mapid = "saves" /\ loadfile = "-1" /\ ticks = 0 /\ outcome = "running"
    /\ chpfile = <<IntStr(1), IntStr(1)>>
    /\ croom = 1
    /\ cursor.aurect.x = 50 * U

\* C18: resuming with no checkpoint file raises nothing and leaves the current
\* room and the character where the map file puts them.
C18_ResumeWithoutFile ==
    [][ ( Resume /\ chpfile = None )
           => /\ outcome' = "running"
              /\ croom' = start[1]
              /\ cursor'.cridx = start[1]
              /\ cursor'.aurect = AuRect(start[2], start[3], CharSize, CharSize) ]_vars

\* a session made from the checkpoint with no file, in a room 0 that has a
\* checkpoint
C18_Witness ==
    /\ loadfile = "-1" /\ chpfile = None /\ ticks = 0 /\ outcome = "running"
    /\ mapid = "saves" /\ croom = 0
    /\ cursor.aurect = AuRect(115, 115, CharSize, CharSize)

\* C19: the handling of a death event ends the session as died, back in the
\* menu, with the checkpoint file as the last save left it.
C19_DeathKeepsCheckpoint ==
    [][ Handling("DEATHEVENT") => ( outcome' = "died" /\ chpfile' = chpfile ) ]_vars

\* a session that saved in room 0 and died
C19_Witness ==
    /\ outcome = "died"
    /\ chpfile = <<IntStr(0), IntStr(0)>>

\* what movecharacter makes of the character of the current room with the
\* given keys held
Moves(pressed) ==
    movecharacter(cursor, Room(rooms, croom).walls, Room(rooms, croom).ladders, pressed)

\* holding the space bar changes nothing in what movecharacter does
JumpIgnored == Moves({SPACE}) = Moves({})

C21_UnknownKindRaises ==
    [][ \A tg \in AddTags :
           ( AddOne(tg) /\ tg.tag \notin BlockKinds )
              => ( outcome' = "crash" /\ rooms' = rooms ) ]_vars

\* a room that holds a block and then was given an unknown tag
C21_Witness ==
    /\ mapid = "addelem" /\ outcome = "crash"
    /\ Len(rooms[1].allblocks) = 1

\* ---- test_keys on the doors and keys of a map ----
MaxKeys == 2

\* the keyid lists tried: empty, one door, two partners or not, a door that is
\* not in the map, three doors
WhoOpens == {<<>>, <<0>>, <<2>>, <<0, 1>>, <<0, 2>>, <<1, 9>>, <<0, 1, 2>>}

\* doors 0 and 2 in room 0, door 1 in room 1, the keys in room 0
KeysMaps ==
    { << << DoorTag(0, 100, 100, d0, l0), DoorTag(2, 300, 100, d2, l2) >>
            \o [k \in 1..Len(ws) |-> KeyTag(k - 1, 500 + 100 * k, 100, ws[k])],
         << DoorTag(1, 50, 50, d1, l1) >> >> :
        d0 \in {1, 2}, d1 \in {0, 2}, d2 \in {0, 1, -1}, l0 \in BOOLEAN, l1 \in BOOLEAN,
        l2 \in BOOLEAN, ws \in UNION { [1..n -> WhoOpens] : n \in 0..MaxKeys } }

InitKeys ==
    \E tags \in KeysMaps :
        /\ mapid = "keys"
        /\ start = <<0, 0, 0>>
        /\ rooms = [i \in 1..Len(tags) |-> BuildRoom(NewRoom(i - 1), tags[i])]
        /\ croom = 0
        /\ cursor = NewCharacter(<<0, 0>>, 0)
        /\ cpp = None
        /\ queue = <<>>
        /\ enterroom = TRUE
        /\ dying = FALSE
        /\ kup = FALSE
        /\ cursorinside = None
        /\ chpfile = None
        /\ outcome = "running"
        /\ ticks = 0
        /\ refst = None
        /\ arrivals = 0
        /\ loadfile = "None"

\* unittest runs test_keys on the map: an assertion that fails or an index out
\* of range rejects it
RunTestKeys ==
    /\ outcome = "running"
    /\ outcome' = IF test_keys(rooms) THEN "accepted" ELSE "rejected"
    /\ UNCHANGED <<mapid, start, loadfile, arrivals, refst, rooms, croom, cursor, cpp, queue,
                   enterroom, dying, kup, cursorinside, chpfile, ticks>>

SpecKeys == InitKeys /\ [][RunTestKeys]_vars

\* the doors of a map with the given id
DoorsWithId(rms, id) ==
    {d \in AllDoors(rms) : DoorAt(rms, d).id = id}

\* C22: a map that test_keys accepts has every locked door in the list of some
\* key, every key with a list of one or two door ids, and the two doors of a
\* two-door key leading to each other.
C22_AcceptedKeysAreSound ==
    outcome = "accepted" =>
       /\ \A d \in AllDoors(rooms) :
             DoorAt(rooms, d).locked =>
                \E k \in AllKeys(rooms) : InSeq(DoorAt(rooms, d).id, KeyAt(rooms, k).whoopen)
       /\ \A k \in AllKeys(rooms) :
             LET ids == KeyAt(rooms, k).whoopen
             IN /\ Len(ids) \in {1, 2}
                /\ Len(ids) = 2 =>
                      /\ DoorsWithId(rooms, ids[1]) # {}
                      /\ DoorsWithId(rooms, ids[2]) # {}
                      /\ \A a \in DoorsWithId(rooms, ids[1]), b \in DoorsWithId(rooms, ids[2]) :
                            Partners(DoorAt(rooms, a), DoorAt(rooms, b))

\* an accepted map with a locked pair of doors and the key that opens both
C22_Witness ==
    /\ mapid = "keys" /\ outcome = "accepted"
    /\ \E k \in AllKeys(rooms) : KeyAt(rooms, k).whoopen = <<0, 1>>
    /\ \E d \in AllDoors(rooms) : DoorAt(rooms, d).locked

\* what movecharacter steps: the rectangle, the velocity increments, the flag
Physics(cur) == <<cur.aurect, cur.dvx, cur.dvy, cur.touchplane>>

\* what movebot steps, for the bots of every room
Patrols(rms) == [r \in 1..Len(rms) |-> rms[r].bots]

\* C23: the iteration that detects the contact with a deadly block or a bot
\* steps neither the character nor a bot; from then on no iteration runs, the
\* events posted before the contact are handled in order, none of them a door
\* event, the death event is the last of them, and the session ends as died.
C23_DyingOnlyTerminates ==
    [][ /\ ( Iteration /\ dying' )
           => ( Physics(cursor') = Physics(cursor) /\ Patrols(rooms') = Patrols(rooms) )
        /\ ( dying /\ outcome = "running" )
           => /\ queue # <<>>
              /\ queue[Len(queue)].type = "DEATHEVENT"
              /\ ~InQueue(queue, "ENTERDOOREVENT")
              /\ ~Iteration
              /\ Physics(cursor') = Physics(cursor)
              /\ outcome' \in {"running", "died"}
              /\ outcome' = "running"
                    => /\ queue' = Tail(queue)
                       /\ Patrols(rooms') = Patrols(rooms)
                       /\ dying' /\ enterroom' = enterroom ]_vars

\* a session that died of a contact
C23_Witness == dying /\ outcome = "died" /\ ~enterroom

\* C24: the checkpoint file, when there is one, holds a room id and the id of a
\* checkpoint that the map has in that room; a checkpoint event posted in the
\* iteration that also posts a door event is handled first, with the room of
\* the checkpoint still current.
C24_SavedCheckpointInRoom ==
    ( mapid \in MapIds /\ chpfile # None ) =>
        /\ StrInt(chpfile[1]) \in RoomIds(maploader(mapid))
        /\ CheckpointOf(maploader(mapid), StrInt(chpfile[1]), StrInt(chpfile[2])) # None

\* the character saved at the checkpoint of room 0 and went through the door
\* in the same iteration: it is in room 1 with the file naming room 0
C24_Witness ==
    /\ mapid = "saves" /\ outcome = "running" /\ queue = <<>>
    /\ croom = 1
    /\ chpfile = <<IntStr(0), IntStr(0)>>

\* the centre of the rectangle is outside the page with the given offset
CentreOutside(r, off) ==
    \/ CenterX2(r) < 2 * off[1] * PAGE * U
    \/ CenterX2(r) > 2 * (off[1] + 1) * PAGE * U
    \/ CenterY2(r) < 2 * off[2] * PAGE * U
    \/ CenterY2(r) > 2 * (off[2] + 1) * PAGE * U

\* the second offset is the first moved by one page to the side where the
\* centre of the rectangle is
OnePageToward(off, new, r) ==
    \/ new = <<off[1], off[2] - 1>> /\ CenterY2(r) < 2 * off[2] * PAGE * U
    \/ new = <<off[1] - 1, off[2]>> /\ CenterX2(r) < 2 * off[1] * PAGE * U
    \/ new = <<off[1], off[2] + 1>> /\ CenterY2(r) > 2 * (off[2] + 1) * PAGE * U
    \/ new = <<off[1] + 1, off[2]>> /\ CenterX2(r) > 2 * (off[1] + 1) * PAGE * U

\* C25: an iteration that moves the character and leaves its centre outside
\* the page shown changes the offset by one page towards the character,
\* whatever the offset was.
C25_ScrollFollowsCentre ==
    [][ ( Iteration /\ ~enterroom /\ outcome = "running"
          /\ CentreOutside(cursor'.aurect, cpp) )
           => OnePageToward(cpp, cpp', cursor'.aurect) ]_vars

\* movecharacter up to its second collision test: whether the character
\* overlaps a ladder, the walls it collides with after the horizontal move, the
\* vertical displacement dsp[1] and the walls it collides with after the
\* vertical move
VerticalMove(cur, groupwalls, groupladders, pressed) ==
    LET c1 == IF Len(collidinggroup(cur.aurect, groupladders)) = 0
              THEN applyforce(cur)
              ELSE [cur EXCEPT !.dvx = 0, !.dvy = 0]
        dir == getdirmove(cur, pressed)
        dsp0 == (IF LEFT \in dir THEN -(CharSpeed * TPFU) ELSE 0)
                + (IF RIGHT \in dir THEN CharSpeed * TPFU ELSE 0) + c1.dvx
        rx == move(c1.aurect, dsp0, 0)
        rx2 == ClampX(rx, collidinggroup(rx, groupwalls), dsp0)
        onladder == Len(collidinggroup(rx2, groupladders)) > 0
        dsp1 == (IF onladder /\ UP \in dir THEN -(CharSpeed * TPFU) ELSE 0)
                + (IF onladder /\ DOWN \in dir THEN CharSpeed * TPFU ELSE 0)
                + (IF JUMP \in dir THEN -(JumpSpeed * TPFU) ELSE 0) + c1.dvy
    IN [ladder |-> Len(collidinggroup(cur.aurect, groupladders)) > 0,
        collx |-> collidinggroup(rx, groupwalls),
        dir |-> dir, dsp1 |-> dsp1,
        collspr |-> collidinggroup(move(rx2, 0, dsp1), groupwalls)]

\* the iteration moved the character as movecharacter does with the keys held,
\* and the vertical move collided with a wall
VerticalHit(pressed) ==
    /\ Moved
    /\ Physics(cursor') = Physics(Moves(pressed))
    /\ VerticalMove(cursor, Room(rooms, croom).walls, Room(rooms, croom).ladders,
                    pressed).collspr # <<>>

\* the vertical displacement of that move
Dsp1(pressed) ==
    VerticalMove(cursor, Room(rooms, croom).walls, Room(rooms, croom).ladders, pressed).dsp1

\* the rectangle stands on the top of a wall of the current room
OnTop(r) == \E i \in 1..Len(Room(rooms, croom).walls) :
               Bottom(r) = Top(Room(rooms, croom).walls[i].aurect)

\* the rectangle touches the underside of a wall of the current room
Under(r) == \E i \in 1..Len(Room(rooms, croom).walls) :
               Top(r) = Bottom(Room(rooms, croom).walls[i].aurect)

\* C26 as claimed: after a vertical collision with a wall under gravity the flag
\* touchplane is true exactly when the character moved down and was put on the
\* top of the wall, false when it moved up against the underside of a wall,
\* and dvx and dvy are zero.
C26_FlagTrueOnLanding ==
    [][ \A pressed \in PressedSets :
           ( VerticalHit(pressed) /\ cursor.ay > 0 )
              => /\ cursor'.touchplane <=> ( Dsp1(pressed) > 0 /\ OnTop(cursor'.aurect) )
                 /\ ( Dsp1(pressed) < 0 /\ Under(cursor'.aurect) ) => ~cursor'.touchplane
                 /\ cursor'.dvx = 0 /\ cursor'.dvy = 0 ]_vars

\* C26 amended: after a vertical collision with a wall under gravity the flag
\* touchplane is false exactly when the character moved down (it was put on
\* the top of the wall), true when it moved up and was put against the
\* underside of a wall, and dvx and dvy are zero.
C26_FlagFalseOnLanding ==
    [][ \A pressed \in PressedSets :
           ( VerticalHit(pressed) /\ cursor.ay > 0 )
              => /\ ~cursor'.touchplane <=> Dsp1(pressed) > 0
                 /\ Dsp1(pressed) > 0 => OnTop(cursor'.aurect)
                 /\ Dsp1(pressed) < 0 => ( Under(cursor'.aurect) /\ cursor'.touchplane )
                 /\ cursor'.dvx = 0 /\ cursor'.dvy = 0 ]_vars

\* the character stands on the wall it fell on, the flag false
C26_Witness ==
    /\ mapid = "pairs" /\ outcome = "running" /\ ticks >= 1
    /\ OnTop(cursor.aurect) /\ ~cursor.touchplane
    /\ cursor.dvx = 0 /\ cursor.dvy = 0

\* what movecharacter meets in the current room with the keys held
Meets(pressed) ==
    VerticalMove(cursor, Room(rooms, croom).walls, Room(rooms, croom).ladders, pressed)

\* the iteration moved the character as movecharacter does with the keys held
MovedWith(pressed) == Moved /\ Physics(cursor') = Physics(Moves(pressed))

\* the move started off every ladder and met no wall
FreeMove(pressed) ==
    /\ MovedWith(pressed)
    /\ ~Meets(pressed).ladder
    /\ Meets(pressed).collx = <<>> /\ Meets(pressed).collspr = <<>>

\* the move started on a ladder
LadderMove(pressed) == MovedWith(pressed) /\ Meets(pressed).ladder

\* the vertical displacement the keys add: dsp[1] without dvy * TPF
VerticalInput(pressed) == Meets(pressed).dsp1 - cursor'.dvy

\* C27 as claimed: a move that starts on a ladder leaves dvx and dvy zero; a
\* move that starts off every ladder (and meets no wall) leaves dvx increased by
\* exactly ax*dt and dvy by exactly ay*dt, and y moved by dvy*dt (plus the
\* displacement of the keys).
C27_PlainIntegration ==
    [][ \A pressed \in PressedSets :
          /\ LadderMove(pressed) => ( cursor'.dvx = 0 /\ cursor'.dvy = 0 )
          /\ FreeMove(pressed)
               => /\ cursor'.dvx = cursor.dvx + cursor.ax
                  /\ cursor'.dvy = cursor.dvy + cursor.ay
                  /\ cursor'.aurect.y = cursor.aurect.y + cursor'.dvy
                                          + VerticalInput(pressed) ]_vars

\* C27 amended: a move that starts on a ladder leaves dvx and dvy zero; a move
\* that starts off every ladder (and meets no wall) leaves dvx increased by
\* exactly (ax - 0.5*dvx)*dt and dvy by exactly ay*dt, and y moved by dvy*dt
\* (plus the displacement of the keys).
C27_IntegrationWithDrag ==
    [][ \A pressed \in PressedSets :
          /\ LadderMove(pressed) => ( cursor'.dvx = 0 /\ cursor'.dvy = 0 )
          /\ FreeMove(pressed)
               => /\ cursor'.dvx = cursor.dvx + cursor.ax - Trunc(cursor.dvx, 2 * FPS)
                  /\ cursor'.dvy = cursor.dvy + cursor.ay
                  /\ cursor'.aurect.y = cursor.aurect.y + cursor'.dvy
                                          + VerticalInput(pressed) ]_vars

\* in the wind the character has a horizontal velocity that the term in dvx
\* has reduced: two increments of ax would give 2 * ax
C27_Witness ==
    /\ mapid = "windy" /\ outcome = "running"
    /\ cursor.ax > 0 /\ cursor.dvx > cursor.ax /\ cursor.dvx < 2 * cursor.ax

\* mazeloop calls movebot for every bot of the room in every iteration
SpecBotLive == SpecBot /\ WF_vars(MoveBot)

\* the doubled distance from the bot to the waypoint of index i
ToWaypoint2(bot, i) == Norm2(distance2(bot.pathmarkers[i + 1], bot.aurect))

\* C28: for every bot and every step the target index is a valid index of the
\* waypoint list; with the remaining distance to the target at least speed*dt
\* the index is unchanged and the bot moves by velocity*dt, a step of length
\* speed*dt towards the target; otherwise the bot is put exactly on the target
\* and the index advances by one, wrapping to 0 after the last waypoint; so
\* the k-th arrival is on waypoint k in list order, the spawn position last,
\* and the arrivals keep coming.
C28_PatrolCycles ==
    /\ [][ LET bot == rooms[1].bots[1]
               after == rooms'[1].bots[1]
               n == Len(bot.pathmarkers)
               step == BotSpeed * TPFU
           IN /\ bot.ipm \in 0..(n - 1) /\ after.ipm \in 0..(n - 1)
              /\ ToWaypoint2(bot, bot.ipm) >= 2 * step
                   => /\ after.ipm = bot.ipm
                      /\ after.aurect = move(bot.aurect, bot.curspeed[1], bot.curspeed[2])
                      /\ ToWaypoint2(after, bot.ipm) = ToWaypoint2(bot, bot.ipm) - 2 * step
                      /\ arrivals' = arrivals
              /\ ToWaypoint2(bot, bot.ipm) < 2 * step
                   => /\ after.aurect.x = bot.pathmarkers[bot.ipm + 1].x
                      /\ after.aurect.y = bot.pathmarkers[bot.ipm + 1].y
                      /\ after.ipm = (bot.ipm + 1) % n
                      /\ arrivals' = arrivals + 1
                      /\ bot.ipm = (arrivals' - 1) % n ]_vars
    /\ \A k \in 1..MaxArrivals : <>(arrivals = k)

\* a bot with two distinct markers has gone round once and is on its first
\* marker again
C28_Witness ==
    LET bot == rooms[1].bots[1]
        pm == bot.pathmarkers
    IN /\ mapid = "patrol"
       /\ Len(pm) = 3 /\ arrivals = 4
       /\ pm[1] # pm[2] /\ pm[2] # pm[3] /\ pm[1] # pm[3]
       /\ bot.aurect = pm[1] /\ bot.ipm = 1

\* the step stays in one session: the game runs and the blocks are not killed
InSession == outcome = "running" /\ outcome' # "died"

\* C29: during a session the flag taken of a key only changes from false to
\* true and the flag locked of a door only from true to false, and the flag
\* locked of a door changes only in the handling of a key event whose list of
\* doors holds the id of that door.
C29_FlagsOneWay ==
    [][ InSession =>
          /\ AllDoors(rooms') = AllDoors(rooms) /\ AllKeys(rooms') = AllKeys(rooms)
          /\ \A p \in AllKeys(rooms) :
                Room(rooms', p[1]).keys[p[2]].taken # Room(rooms, p[1]).keys[p[2]].taken
                   => ( ~Room(rooms, p[1]).keys[p[2]].taken
                        /\ Room(rooms', p[1]).keys[p[2]].taken )
          /\ \A p \in AllDoors(rooms) :
                DoorAt(rooms', p).locked # DoorAt(rooms, p).locked
                   => /\ DoorAt(rooms, p).locked /\ ~DoorAt(rooms', p).locked
                      /\ Handling("TAKEKEYEVENT")
                      /\ InSeq(DoorAt(rooms, p).id, Head(queue).openeddoor) ]_vars

\* key 0 of map "pairs" was taken and its doors 2 and 3 are open, door 4 of the
\* same room is still locked
C29_Witness ==
    /\ mapid = "pairs" /\ outcome = "running"
    /\ \E p \in AllKeys(rooms) : Room(rooms, p[1]).keys[p[2]].id = 0
                                 /\ Room(rooms, p[1]).keys[p[2]].taken
    /\ \A p \in AllDoors(rooms) :
          /\ DoorAt(rooms, p).id \in {2, 3} => ~DoorAt(rooms, p).locked
          /\ DoorAt(rooms, p).id = 4 => DoorAt(rooms, p).locked

\* a list blitnow that takes the doors of the first room
blitnow_FirstRoom(rms, cr, dooridlist) ==
    LET rr == Room(keytaken(rms, dooridlist), 0)
        hits == SelectSeq(dooridlist, LAMBDA doorid : InSeq(doorid, alldoorsid(rr)))
    IN [j \in 1..Len(hits) |-> rr.doors[getdoorref(rr, hits[j])]]

\* Maze.keytaken: the list blitnow it returns, the opened doors of the current
\* room in the order of dooridlist
blitnow(rms, cr, dooridlist) ==
    LET rr == Room(keytaken(rms, dooridlist), cr)
        hits == SelectSeq(dooridlist, LAMBDA doorid : InSeq(doorid, alldoorsid(rr)))
    IN [j \in 1..Len(hits) |-> rr.doors[getdoorref(rr, hits[j])]]

\* the elements of a sequence
Range(seq) == {seq[j] : j \in 1..Len(seq)}

\* C30: keytaken(keyId, ids) sets locked to false on exactly the doors, of any
\* room, whose id is in ids, leaves every other door as it was, and returns
\* exactly the opened doors of the current room.
C30_KeytakenOpensListed ==
    [][ Handling("TAKEKEYEVENT") =>
          LET ids == Head(queue).openeddoor
          IN /\ AllDoors(rooms') = AllDoors(rooms)
             /\ \A p \in AllDoors(rooms) :
                   DoorAt(rooms', p) = IF InSeq(DoorAt(rooms, p).id, ids)
                                       THEN [DoorAt(rooms, p) EXCEPT !.locked = FALSE]
                                       ELSE DoorAt(rooms, p)
             /\ Range(blitnow(rooms, croom, ids))
                   = {DoorAt(rooms', p) : p \in {q \in AllDoors(rooms) :
                                                   /\ q[1] = croom
                                                   /\ InSeq(DoorAt(rooms, q).id, ids)}} ]_vars

\* the key event of key 0 of map "pairs" was handled in room 0: door 2 of
\* room 0 and door 3 of room 1 are open, door 5 of room 1 is locked
C30_Witness ==
    /\ mapid = "pairs" /\ outcome = "running" /\ croom = 0 /\ queue = <<>>
    /\ \A p \in AllDoors(rooms) :
          /\ DoorAt(rooms, p).id = 2 => ( p[1] = 0 /\ ~DoorAt(rooms, p).locked )
          /\ DoorAt(rooms, p).id = 3 => ( p[1] = 1 /\ ~DoorAt(rooms, p).locked )
          /\ DoorAt(rooms, p).id = 5 => DoorAt(rooms, p).locked
    /\ \E p \in AllDoors(rooms) : DoorAt(rooms, p).id = 3

\* the door entered has no partner: no door has the destination of the event
\* as its id and leads back to the door entered
NoPartner(ev) ==
    ~\E p \in AllDoors(rooms) : /\ DoorAt(rooms, p).id = ev.destination
                                /\ DoorAt(rooms, p).destination = ev.door_id

\* no door has an id of the list
OpensNothing(ev) ==
    \A p \in AllDoors(rooms) : ~InSeq(DoorAt(rooms, p).id, ev.openeddoor)

\* the step leaves the current room, the character's position and the doors
\* as they were, and the game running
NothingMoved ==
    /\ outcome' = "running"
    /\ croom' = croom
    /\ cursor'.aurect = cursor.aurect
    /\ DoorsOf(rooms') = DoorsOf(rooms)

\* C31: crossdoor with a destination >= 0 that resolves to no partner door, and
\* keytaken with an empty list of doors or with ids that match no door, raise
\* nothing and leave the current room, the character's position and the
\* locked flag of every door unchanged.
C31_UnresolvedChangesNothing ==
    [][ /\ ( /\ Handling("ENTERDOOREVENT")
             /\ Head(queue).destination >= 0
             /\ NoPartner(Head(queue)) ) => NothingMoved
        /\ ( Handling("TAKEKEYEVENT") /\ OpensNothing(Head(queue)) )
              => NothingMoved ]_vars

\* the step starts a session after one that ended by death
SessionStarts == outcome = "died" /\ outcome' = "running"

\* a wind area of the current room holds the character
InsideWind ==
    \E i \in 1..Len(Room(rooms, croom).windareas) :
        contains(Room(rooms, croom).windareas[i].aurect, cursor.aurect)

\* C32: a session started after a session that ended by death begins with no
\* wind area active and the force field equal to gravity, and its first
\* iteration, as the first iteration of a first session, posts the entering
\* event of the wind area that holds the character.
C32_WindEndsWithSession ==
    [][ /\ SessionStarts => ( cursorinside' = None /\ Accel(cursor') = Gravity )
        /\ ( /\ Iteration /\ ticks = 0 /\ ~enterroom' /\ outcome' = "running"
             /\ InsideWind )
             => ( Posted("ENTERINGEVENT") /\ cursorinside' # None ) ]_vars

\* the per-type groups of a room, by kind
TypeGroups(room) ==
    [kind \in BlockKinds |->
        CASE kind = "Wall" -> room.walls
          [] kind = "Ladder" -> room.ladders
          [] kind = "DeadlyBlock" -> room.deathblocks
          [] kind = "EnemyBot" -> room.bots
          [] kind = "Door" -> room.doors
          [] kind = "Key" -> room.keys
          [] kind = "WindArea" -> room.windareas
          [] kind = "Checkpoint" -> room.checkpoints]

\* the sprites of a group
Oids(g) == {g[i].oid : i \in 1..Len(g)}

\* the kind of the element of the map file a block of a room was built from
KindOf(m, r, oid) == MapRooms(m)[r + 1][oid].tag

\* C33: in every reachable state each block of a room is in the group
\* allblocks and in exactly one per-type group, the one of its kind, and
\* allblocks is the union of the per-type groups; after empty() allblocks and
\* every per-type group are empty.
C33_GroupsPartitionAll ==
    /\ \A r \in RoomIds(rooms) :
          LET room == Room(rooms, r)
              groups == TypeGroups(room)
          IN /\ Range(room.allblocks) = UNION {Oids(groups[kind]) : kind \in BlockKinds}
             /\ Cardinality(Range(room.allblocks)) = Len(room.allblocks)
             /\ \A kind \in BlockKinds : Cardinality(Oids(groups[kind])) = Len(groups[kind])
             /\ \A oid \in Range(room.allblocks) :
                   {kind \in BlockKinds : oid \in Oids(groups[kind])} = {KindOf(mapid, r, oid)}
    /\ outcome = "died" => AllEmpty(rooms)

\* a running game in a room that has blocks of all eight kinds
C33_Witness ==
    /\ mapid = "pairs" /\ outcome = "running" /\ ticks >= 1 /\ croom = 0
    /\ \A kind \in BlockKinds : TypeGroups(Room(rooms, croom))[kind] # <<>>

\* the smallest rectangle that holds two rectangles
Hull(a, b) ==
    LET x0 == IF a.x <= b.x THEN a.x ELSE b.x
        y0 == IF a.y <= b.y THEN a.y ELSE b.y
        x1 == IF Right(a) >= Right(b) THEN Right(a) ELSE Right(b)
        y1 == IF Bottom(a) >= Bottom(b) THEN Bottom(a) ELSE Bottom(b)
    IN FlRect(x0, y0, x1 - x0, y1 - y0)

HitsWall(room, rect) ==
    \E i \in 1..Len(room.walls) : colliderect(room.walls[i].aurect, rect)

\* the waypoints of the bot (the markers and the spawn position) overlap no wall
WaypointsClear(room, bot) ==
    \A i \in 1..Len(bot.pathmarkers) : ~HitsWall(room, bot.pathmarkers[i])

\* no wall overlaps what the bot sweeps on a leg between two waypoints
LegsClear(room, bot) ==
    LET n == Len(bot.pathmarkers)
    IN \A i \in 1..n :
          ~HitsWall(room, Hull(bot.pathmarkers[i], bot.pathmarkers[(i % n) + 1]))

\* C34 as claimed: a bot whose spawn position and markers overlap no wall
\* overlaps no wall of its room after any number of steps.
C34_WallsStopBots ==
    \A r \in RoomIds(rooms) :
       \A i \in 1..Len(Room(rooms, r).bots) :
          WaypointsClear(Room(rooms, r), Room(rooms, r).bots[i])
             => ~HitsWall(Room(rooms, r), Room(rooms, r).bots[i].aurect)

\* C34 amended: a bot whose legs between consecutive waypoints (the spawn
\* position included) are overlapped by no wall overlaps no wall of its room
\* after any number of steps.
C34_ClearLegsNoWall ==
    \A r \in RoomIds(rooms) :
       \A i \in 1..Len(Room(rooms, r).bots) :
          LegsClear(Room(rooms, r), Room(rooms, r).bots[i])
             => ~HitsWall(Room(rooms, r), Room(rooms, r).bots[i].aurect)

\* bot 1 of map "barrier" has moved along the wall below its leg
C34_Witness ==
    /\ mapid = "barrier" /\ outcome = "running" /\ ticks >= 2
    /\ \E i \in 1..Len(Room(rooms, 0).bots) :
          /\ Room(rooms, 0).bots[i].id = 1
          /\ LegsClear(Room(rooms, 0), Room(rooms, 0).bots[i])
          /\ Room(rooms, 0).bots[i].aurect.x > 100 * U

\* ---- Character.movecharacter, call by call ----
\* "corner": a floor and two walls of different left edges, one on the other;
\* "lintel": two walls side by side with different undersides; "shaft": a
\* thin wall a few units above a floor, more than a page below the top
StepCorner ==
    << WallTag(0, 0, 300, 400, 50), WallTag(1, 102, 190, 10, 100),
       WallTag(2, 104, 290, 10, 10) >>

StepLintel == << WallTag(0, 0, 0, 100, 50), WallTag(1, 100, 0, 100, 48) >>

StepShaft == << WallTag(0, 0, 1143, 100, 1), WallTag(1, 0, 1150, 100, 50) >>

\* the character after n calls of movecharacter from rest with no key held, no
\* wind and nothing in its way: each call adds ay * TPF to dvy and then
\* dvy * TPF to y, so dvy = n * ay * TPF and y has grown by
\* (1 + 2 + ... + n) * ay * TPF * TPF
freefall(cur, n) ==
    [cur EXCEPT !.dvy = n * cur.ay,
                !.aurect.y = @ + ((n * (n + 1)) \div 2) * cur.ay]

\* a room and a character of it: next to the walls of "corner", under the
\* walls of "lintel", and in "shaft" after 100 iterations of fall from the top
StepCases ==
    { <<"corner", BuildRoom(NewRoom(0), StepCorner), NewCharacter(<<80, 280>>, 0)>>,
      <<"corner", BuildRoom(NewRoom(0), StepCorner), NewCharacter(<<130, 280>>, 0)>>,
      <<"lintel", BuildRoom(NewRoom(0), StepLintel), NewCharacter(<<90, 51>>, 0)>>,
      <<"lintel", BuildRoom(NewRoom(0), StepLintel), NewCharacter(<<90, 57>>, 0)>>,
      <<"shaft", BuildRoom(NewRoom(0), StepShaft),
        freefall(NewCharacter(<<40, 0>>, 0), 100)>> }

InitStep ==
    \E c \in StepCases :
        /\ mapid = c[1]
        /\ start = <<0, 0, 0>>
        /\ rooms = << c[2] >>
        /\ croom = 0
        /\ cursor = c[3]
        /\ cpp = None
        /\ queue = <<>>
        /\ enterroom = FALSE
        /\ dying = FALSE
        /\ kup = FALSE
        /\ cursorinside = None
        /\ chpfile = None
        /\ outcome = "running"
        /\ ticks = 0
        /\ refst = None
        /\ arrivals = 0
        /\ loadfile = "None"

\* one call of movecharacter with the walls and ladders of the room
StepOnce ==
    /\ ticks < MaxTicks
    /\ \E pressed \in PressedSets :
          cursor' = movecharacter(cursor, rooms[1].walls, rooms[1].ladders, pressed)
    /\ ticks' = ticks + 1
    /\ UNCHANGED <<mapid, start, loadfile, arrivals, refst, rooms, croom, cpp, queue,
                   enterroom, dying, kup, cursorinside, chpfile, outcome>>

SpecStep == InitStep /\ [][StepOnce]_vars

\* no two walls of the room overlap
WallsApart(room) ==
    \A i \in 1..Len(room.walls) : \A j \in 1..Len(room.walls) :
        i # j => ~colliderect(room.walls[i].aurect, room.walls[j].aurect)

\* C35: if the character overlaps no wall before a call of movecharacter and
\* the walls of the room overlap each other nowhere, then after the call
\* (horizontal move and clamp, vertical move and clamp) the character
\* overlaps no wall of the room and its size is still 20 x 20.
C35_StepEndsClearOfWalls ==
    [][ ( WallsApart(rooms[1]) /\ ~HitsWall(rooms[1], cursor.aurect) )
           => /\ ~HitsWall(rooms[1], cursor'.aurect)
              /\ cursor'.aurect.w = CharSize * U /\ cursor'.aurect.h = CharSize * U ]_vars

\* C36: whenever an active wind area is recorded it is a wind area of the
\* current room; so once the character stands in a room without wind areas,
\* the events handled, its force field is gravity, also after it crossed a
\* door inside a wind area to a door whose coordinates lie in the rectangle
\* of that wind area.
C36_WindOfCurrentRoom ==
    outcome = "running" =>
       /\ cursorinside # None
             => \E i \in 1..Len(Room(rooms, croom).windareas) :
                   Room(rooms, croom).windareas[i] = cursorinside[1]
       /\ ( queue = <<>> /\ Room(rooms, croom).windareas = <<>> )
             => Accel(cursor) = Gravity

\* the step sets the flag taken of a key
KeyFlagSet ==
    /\ AllKeys(rooms') = AllKeys(rooms)
    /\ \E p \in AllKeys(rooms) : /\ ~Room(rooms, p[1]).keys[p[2]].taken
                                 /\ Room(rooms', p[1]).keys[p[2]].taken

\* a death event is ahead of a key event in the queue
DeathAhead(q) ==
    \E i \in 1..Len(q) : \E j \in 1..Len(q) :
        i < j /\ q[i].type = "DEATHEVENT" /\ q[j].type = "TAKEKEYEVENT"

\* the handling of a key event leaves every door of its list unlocked
ListedDoorsOpen ==
    \A p \in AllDoors(rooms') :
        InSeq(DoorAt(rooms', p).id, Head(queue).openeddoor) => ~DoorAt(rooms', p).locked

C38_OnlyCurrentRoomStepped ==
    [][ Iteration =>
          /\ \A r \in 1..Len(rooms) :
                 r # croom + 1 => Patrols(rooms')[r] = Patrols(rooms)[r]
          /\ ( enterroom' \/ dying' ) => Patrols(rooms') = Patrols(rooms) ]_vars

\* the bot of room 0 of map "hazard" left its spawn position while the
\* character was there, and an iteration has run in room 1 since
C38_Witness ==
    /\ mapid = "hazard" /\ Running /\ croom = 1 /\ ~enterroom /\ ticks >= 2
    /\ Patrols(rooms)[1] # Patrols(maploader(mapid))[1]

====
